---------------------------- MODULE Spec2Model ----------------------------
(***************************************************************************)
(* The per-connection transport of the UnrealCV server: the receive loop   *)
(* MultiSocketReceiveAll, the frame decoder                                *)
(* FMultiSocketMessageHeader::ReceivePayload and the session thread        *)
(* FClientHandler (Init / Run / Stop), together with the peer that feeds   *)
(* each session's socket.                                                  *)
(*                                                                         *)
(* Every variable is a function of the session.  A 32-bit unsigned value   *)
(* is kept as its two 16-bit halves [hi, lo], so that the whole uint32     *)
(* range is representable and the uint32 -> int32 conversion at the call   *)
(* of MultiSocketReceiveAll keeps its width.                               *)
(***************************************************************************)
EXTENDS Integers, Sequences, FiniteSets, TLC

(***************************************************************************)
(* Bounds of the model.                                                    *)
(***************************************************************************)
MaxFrames == 2
MaxPayloadLen == 2
MaxPatterns == 3

Sessions == {1, 2}
NULL == 0

\* The byte values a payload is drawn from (a NUL and a letter).
PayloadBytes == {0, 97}

(***************************************************************************)
(* Program constants.                                                      *)
(***************************************************************************)
\* uint32 FMultiSocketMessageHeader::DefaultMagic = 0x9E2B83C1
DefaultMagic == [hi |-> 40491, lo |-> 33729]
\* a magic the peer may send instead (0x9E2B83C0)
WrongMagic == [hi |-> 40491, lo |-> 33728]
\* sizeof(FMultiSocketMessageHeader): two uint32 fields
HeaderSize == 8
\* the mark of an array element that was added but never written
Uninit == -1

\* ESocketErrors, as far as MultiSocketReceiveAll tells them apart
SE_NO_ERROR == "SE_NO_ERROR"
SE_EWOULDBLOCK == "SE_EWOULDBLOCK"
SE_ECONNABORTED == "SE_ECONNABORTED"
SE_ENOTCONN == "SE_ENOTCONN"
SE_ECONNRESET == "SE_ECONNRESET"
SocketErrors == {SE_NO_ERROR, SE_EWOULDBLOCK, SE_ECONNABORTED, SE_ENOTCONN, SE_ECONNRESET}
\* the error codes a failing recv leaves behind when the connection broke
FatalErrors == {SE_ECONNABORTED, SE_ENOTCONN, SE_ECONNRESET}

(***************************************************************************)
(* Helpers.                                                                *)
(***************************************************************************)
Min(a, b) == IF a < b THEN a ELSE b

Upd(f, s, v) == [f EXCEPT ![s] = v]

\* Sequences over S of length lo..n
SeqsUpTo(S, n) == UNION {[1..k -> S] : k \in 0..n}

\* k copies of v
Fill(k, v) == [i \in 1..k |-> v]

(***************************************************************************)
(* uint32 / int32 arithmetic on [hi, lo].                                  *)
(***************************************************************************)
\* int32 (>= 0) -> uint32, as in PayloadSize = Payload.Num()
ToU32(n) == [hi |-> n \div 65536, lo |-> n % 65536]

\* uint32 -> int32, the implicit conversion of PayloadSize to ExpectedSize
ToInt32(u) == IF u.hi >= 32768 THEN (u.hi - 65536) * 65536 + u.lo ELSE u.hi * 65536 + u.lo

\* Ar << uint32 : four bytes, least significant first
WriteU32(u) == <<u.lo % 256, u.lo \div 256, u.hi % 256, u.hi \div 256>>

\* Faulty variant: most significant byte first.
ReadU32_bigEndian(bytes, at) ==
    [hi |-> bytes[at + 1] * 256 + bytes[at + 2], lo |-> bytes[at + 3] * 256 + bytes[at + 4]]

\* Reader << uint32 : the four bytes after position at, least significant first
ReadU32(bytes, at) ==
    [hi |-> bytes[at + 3] + 256 * bytes[at + 4], lo |-> bytes[at + 1] + 256 * bytes[at + 2]]

(***************************************************************************)
(* The frame codec, sending side.                                          *)
(***************************************************************************)
\* FMultiSocketMessageHeader(Payload): PayloadSize = Payload.Num(), Magic = DefaultMagic
MessageHeader(Payload) == [Magic |-> DefaultMagic, PayloadSize |-> ToU32(Len(Payload))]

\* A header followed by the payload, as it goes on the wire.
FrameBytes(Header, Payload) == WriteU32(Header.Magic) \o WriteU32(Header.PayloadSize) \o Payload

\* What a peer may send: a frame built by the codec, or one with a foreign magic.
Payloads == SeqsUpTo(PayloadBytes, MaxPayloadLen)
Items == [kind : {"frame"}, payload : Payloads] \cup {[kind |-> "badmagic", payload |-> <<97>>]}

\* The lengths a header of the peer's own making declares in the model: the
\* smallest, and those at which the uint32 turns negative as an int32
\* (2^31 and 2^32 - 1).
WideLengths == {ToU32(1), ToU32(2), [hi |-> 32768, lo |-> 0], [hi |-> 65535, lo |-> 65535]}

\* A header with the right magic and any of these lengths, followed by what
\* the peer chooses to send after it.
WideItems == [kind : {"declared"}, payload : Payloads, size : WideLengths]

ItemHeader(item) ==
    IF item.kind = "frame" THEN MessageHeader(item.payload)
    ELSE IF item.kind = "declared" THEN [Magic |-> DefaultMagic, PayloadSize |-> item.size]
    ELSE [MessageHeader(item.payload) EXCEPT !.Magic = WrongMagic]

ItemBytes(item) == FrameBytes(ItemHeader(item), item.payload)

(***************************************************************************)
(* The receiving side: pure parts.                                         *)
(***************************************************************************)
\* Faulty variant: every chunk is stored at the start of the buffer.
WriteAt_noOffset(arr, at, data) ==
    [i \in 1..Len(arr) |-> IF i <= Len(data) THEN data[i] ELSE arr[i]]

\* Recv(Result + Offset, ...) : data stored from position at (0-based) on
WriteAt(arr, at, data) ==
    [i \in 1..Len(arr) |-> IF at < i /\ i <= at + Len(data) THEN data[i - at] ELSE arr[i]]

\* Faulty variant: a stale would-block is not retried but taken for a close.
ZeroRead_wouldBlockEnds(err) ==
    IF err \in {SE_NO_ERROR, SE_EWOULDBLOCK}
    THEN [retry |-> FALSE, log |-> <<"Log", "gracefully closed">>]
    ELSE [retry |-> FALSE, log |-> <<"Error", "unexpected error">>]

\* Faulty variant: an aborted connection is polled again like would-block.
ZeroRead_abortRetried(err) ==
    IF err \in {SE_EWOULDBLOCK, SE_ECONNABORTED} THEN [retry |-> TRUE, log |-> <<>>]
    ELSE IF err = SE_NO_ERROR
    THEN [retry |-> FALSE, log |-> <<"Log", "gracefully closed">>]
    ELSE [retry |-> FALSE, log |-> <<"Error", "unexpected error">>]

\* MultiSocketReceiveAll, the branch for NumRead == 0: retry, or return false
\* after one log line.
ZeroRead(err) ==
    IF err = SE_EWOULDBLOCK THEN [retry |-> TRUE, log |-> <<>>]
    ELSE IF err = SE_NO_ERROR
    THEN [retry |-> FALSE, log |-> <<"Log", "gracefully closed">>]
    ELSE IF err = SE_ECONNABORTED
    THEN [retry |-> FALSE, log |-> <<"Error", "connection aborted">>]
    ELSE IF err = SE_ENOTCONN
    THEN [retry |-> FALSE, log |-> <<"Error", "not connected">>]
    ELSE [retry |-> FALSE, log |-> <<"Error", "unexpected error">>]

\* Faulty variant: only the upper half of the magic is compared.
MagicOk_upperHalf(Magic) == Magic.hi = DefaultMagic.hi

\* ReceivePayload: Magic != DefaultMagic is the failure
MagicOk(Magic) == Magic = DefaultMagic

\* Faulty variant: the check for an empty payload is missing.
IsEmptyPayload_never(Size) == FALSE

\* ReceivePayload: 0 == PayloadSize
IsEmptyPayload(Size) == Size = ToU32(0)

\* The position of the first NUL of arr, or Len(arr) + 1
RECURSIVE FirstNul(_, _)
FirstNul(arr, i) ==
    IF i > Len(arr) THEN i ELSE IF arr[i] = 0 THEN i ELSE FirstNul(arr, i + 1)

\* Faulty variant: the text is lost.
MultiStringFromBinaryArray_empty(BinaryArray) == <<>>

\* MultiStringFromBinaryArray: std::string(data, Num), then FString(cstr.c_str()),
\* which stops at the first NUL.
MultiStringFromBinaryArray(BinaryArray) == SubSeq(BinaryArray, 1, FirstNul(BinaryArray, 1) - 1)

\* Faulty variant: every socket reports the endpoint of the first peer.
PeerAddress_shared(sock) == <<"peer", 1>>

\* ConnectionSocket->GetPeerAddress: the endpoint of the peer of a socket
PeerAddress(sock) == <<"peer", sock>>

(***************************************************************************)
(* State.                                                                  *)
(***************************************************************************)
VARIABLES
    pc,                 \* where the session's worker is
    bStop,              \* FClientHandler::bStop
    ConnectionSocket,   \* FClientHandler::ConnectionSocket (NULL or a socket)
    exitCode,           \* what Run returned ("none" while it runs)
    HeaderBytes,        \* ReceivePayload: the header buffer
    ArrayReader,        \* Run: the payload array of this iteration
    PayloadSize,        \* ReceivePayload: the declared length
    PayloadOffset,      \* ReceivePayload: where the payload starts in the array
    Offset,             \* MultiSocketReceiveAll: bytes stored so far
    ExpectedSize,       \* MultiSocketReceiveAll: bytes still to read
    LastError,          \* MultiSocketReceiveAll: the code read after the last Recv
    recvRet,            \* the value the last MultiSocketReceiveAll returned
    reqN,               \* the ExpectedSize the running call was entered with
    callStart,          \* bytes consumed from the socket when the call was entered
    frameStart,         \* bytes consumed when ReceivePayload was entered
    log,                \* the UE_LOG lines of the session
    Received,           \* the Received notifications the session broadcast
    errno,              \* the socket subsystem's last error code of the worker
    wire,               \* the bytes the peer has sent, from the start of the frame
                        \* the session is at
    rd,                 \* how many of them the session has consumed
    sent,               \* the items the peer has sent, from that frame on
    peer,               \* the condition of the connection as the socket sees it
    sockOps,            \* the Shutdown / Close calls made on the session's socket
    quota,              \* how many items the peer may still send
    menu,               \* the items the peer may send
    dtor,               \* where ~FClientHandler is ("none" while the session lives)
    dispatched,         \* what the listeners' dispatch of the last broadcast came to
    registry,           \* the dispatcher: the patterns bound, in the order of binding
    command,            \* the dispatcher: the command dispatched last
    invoked,            \* the dispatcher: the handler calls that dispatch made
    result,             \* the dispatcher: the result of that dispatch
    effects,            \* the calls the handler made on the objects of the world
    world,              \* the sensors, the pawn and the controller of the game
    filename,           \* ParseFilenameType: its argument, character by character
    filenameType,       \* ParseFilenameType: what it returned ("none" before the call)
    scene,              \* the sensor objects in memory, the pawn and the world
    sensorList,         \* what GetFusionSensorList returned last
    sensorId,           \* GetSensorById: its argument (NoId before the call)
    sensor              \* GetSensorById: what it returned

runVars == <<pc, bStop, ConnectionSocket, exitCode>>
recvVars == <<HeaderBytes, ArrayReader, PayloadSize, PayloadOffset, Offset, ExpectedSize,
              LastError, recvRet, reqN, callStart, frameStart>>
outVars == <<log, Received>>
sockVars == <<errno, wire, rd, sockOps>>
peerVars == <<sent, peer, quota, menu>>
sessVars == <<runVars, recvVars, outVars, sockVars, peerVars, dtor, dispatched>>
dispVars == <<registry, command, invoked, result, effects, world,
             filename, filenameType, scene, sensorList, sensorId, sensor>>
vars == <<runVars, recvVars, outVars, sockVars, peerVars, dtor, dispatched, dispVars>>

(***************************************************************************)
(* Initial states: the sessions in `present` have been constructed on an   *)
(* accepted socket (ConnectionSocket assigned, bStop not yet initialised), *)
(* their worker is about to call Init.                                     *)
(***************************************************************************)
InitSessions(present, quotaOf, menuOf) ==
    /\ pc = [s \in Sessions |-> IF s \in present THEN "init" ELSE "none"]
    /\ bStop \in [Sessions -> BOOLEAN]
    /\ \A s \in Sessions \ present : bStop[s] = FALSE
    /\ ConnectionSocket = [s \in Sessions |-> IF s \in present THEN s ELSE NULL]
    /\ exitCode = [s \in Sessions |-> "none"]
    /\ HeaderBytes = [s \in Sessions |-> <<>>]
    /\ ArrayReader = [s \in Sessions |-> <<>>]
    /\ PayloadSize = [s \in Sessions |-> ToU32(0)]
    /\ PayloadOffset = [s \in Sessions |-> 0]
    /\ Offset = [s \in Sessions |-> 0]
    /\ ExpectedSize = [s \in Sessions |-> 0]
    /\ LastError = [s \in Sessions |-> SE_NO_ERROR]
    /\ recvRet = [s \in Sessions |-> "none"]
    /\ reqN = [s \in Sessions |-> 0]
    /\ callStart = [s \in Sessions |-> 0]
    /\ frameStart = [s \in Sessions |-> 0]
    /\ log = [s \in Sessions |-> <<>>]
    /\ Received = [s \in Sessions |-> <<>>]
    /\ errno = [s \in Sessions |-> SE_NO_ERROR]
    /\ wire = [s \in Sessions |-> <<>>]
    /\ rd = [s \in Sessions |-> 0]
    /\ sent = [s \in Sessions |-> <<>>]
    /\ peer = [s \in Sessions |-> IF s \in present THEN "open" ELSE "none"]
    /\ sockOps = [s \in Sessions |-> <<>>]
    /\ quota = [s \in Sessions |-> IF s \in present THEN quotaOf ELSE 0]
    /\ menu = [s \in Sessions |-> IF s \in present THEN menuOf[s] ELSE {}]
    /\ dtor = [s \in Sessions |-> "none"]
    /\ dispatched = [s \in Sessions |-> "none"]

\* GetSensorById has not been called.
NoId == -2

\* A game with no world and no sensor object, as long as nothing asks for one.
NoScene == [objects |-> <<>>, kind |-> <<>>, pawn |-> FALSE, world |-> FALSE]

\* Neither ParseFilenameType nor the sensor library has been called.
InitLib ==
    /\ filename = <<>>
    /\ filenameType = "none"
    /\ scene = NoScene
    /\ sensorList = <<>>
    /\ sensorId = NoId
    /\ sensor = NoId

\* No dispatch has been made.
NoResult == [status |-> "none", why |-> "", text |-> <<>>]

\* The same, with a dispatcher that has no pattern bound yet, in a game that
\* has no sensor and no pawn.
InitWith(present, quotaOf, menuOf) ==
    /\ InitSessions(present, quotaOf, menuOf)
    /\ registry = <<>>
    /\ command = <<>>
    /\ invoked = <<>>
    /\ result = NoResult
    /\ effects = <<>>
    /\ world = [sensors |-> 0, pawn |-> FALSE, controller |-> FALSE]
    /\ InitLib

\* One client, sending anything.
Init == InitWith({1}, MaxFrames, [s \in Sessions |-> Items])

\* The one request of each of two clients: a letter of its own.
RequestOf(s) == IF s = 1 THEN <<97>> ELSE <<98>>

\* Two clients, each sending at most one well-formed one-byte frame.
InitTwo == InitWith(Sessions, 1, [s \in Sessions |-> {[kind |-> "frame", payload |-> RequestOf(s)]}])

(***************************************************************************)
(* The peer and the connection.                                            *)
(***************************************************************************)
Avail(s) == Len(wire[s]) - rd[s]

\* The peer acts while the connection is open and the session still serves it.
PeerActive(s) ==
    /\ peer[s] = "open"
    /\ pc[s] \in {"init", "loop", "header", "payload", "message"}

\* The peer sends its next item once the bytes it sent before are consumed: a
\* Recv never reads beyond the frame it is at, so what would queue up behind
\* that frame cannot reach the receive loop earlier.
PeerMaySend(s) == PeerActive(s) /\ quota[s] > 0 /\ Avail(s) = 0

\* The peer sends one whole item.
PeerSend(s) ==
    /\ PeerMaySend(s)
    /\ \E item \in menu[s] :
        /\ wire' = Upd(wire, s, wire[s] \o ItemBytes(item))
        /\ sent' = Upd(sent, s, Append(sent[s],
                        [kind |-> item.kind, payload |-> item.payload,
                         header |-> ItemHeader(item), len |-> Len(ItemBytes(item))]))
    /\ quota' = Upd(quota, s, quota[s] - 1)
    /\ UNCHANGED <<runVars, recvVars, outVars, errno, rd, sockOps, peer, menu>>
    /\ UNCHANGED <<dtor, dispatched, dispVars>>

\* The peer sends the first c bytes of an item and closes the connection.
PeerSendPartial(s) ==
    /\ PeerMaySend(s)
    /\ \E item \in menu[s] : \E c \in 1..(Len(ItemBytes(item)) - 1) :
        /\ wire' = Upd(wire, s, wire[s] \o SubSeq(ItemBytes(item), 1, c))
        /\ sent' = Upd(sent, s, Append(sent[s],
                        [kind |-> "partial", payload |-> <<>>, len |-> c]))
    /\ quota' = Upd(quota, s, quota[s] - 1)
    /\ peer' = Upd(peer, s, "closed")
    /\ UNCHANGED <<runVars, recvVars, outVars, errno, rd, sockOps, menu>>
    /\ UNCHANGED <<dtor, dispatched, dispVars>>

\* The peer closes the connection in good order.
PeerClose(s) ==
    /\ PeerActive(s)
    /\ peer' = Upd(peer, s, "closed")
    /\ UNCHANGED <<runVars, recvVars, outVars, sockVars, sent, quota, menu>>
    /\ UNCHANGED <<dtor, dispatched, dispVars>>

\* The connection breaks: from now on recv fails with the code e.
PeerFail(s) ==
    /\ PeerActive(s)
    /\ \E e \in FatalErrors : peer' = Upd(peer, s, e)
    /\ UNCHANGED <<runVars, recvVars, outVars, sockVars, sent, quota, menu>>
    /\ UNCHANGED <<dtor, dispatched, dispVars>>

(***************************************************************************)
(* MultiSocketReceiveAll: one iteration of the loop, for a Recv that read  *)
(* the n bytes `data` and left the subsystem's last error code at err.     *)
(* A return of false goes through ReceivePayload (one more log line) to    *)
(* the failing branch of Run.                                              *)
(***************************************************************************)
\* Faulty variant: the loop is left while one byte is still missing.
LoopCondition_offByOne(s) == ExpectedSize[s] > 1

\* while (ExpectedSize > 0)
LoopCondition(s) == ExpectedSize[s] > 0

InReceiveAll(s) == pc[s] \in {"header", "payload"} /\ LoopCondition(s)

ReceiveAllIteration(s, n, data, err) ==
    /\ InReceiveAll(s)
    /\ rd' = Upd(rd, s, rd[s] + n)
    /\ errno' = Upd(errno, s, err)
    /\ LastError' = Upd(LastError, s, err)
    /\ IF pc[s] = "header"
       THEN /\ HeaderBytes' = Upd(HeaderBytes, s, WriteAt(HeaderBytes[s], Offset[s], data))
            /\ UNCHANGED ArrayReader
       ELSE /\ ArrayReader' = Upd(ArrayReader, s,
                                  WriteAt(ArrayReader[s], PayloadOffset[s] + Offset[s], data))
            /\ UNCHANGED HeaderBytes
    /\ IF n # 0
       THEN /\ Offset' = Upd(Offset, s, Offset[s] + n)
            /\ ExpectedSize' = Upd(ExpectedSize, s, ExpectedSize[s] - n)
            /\ UNCHANGED <<pc, recvRet, log>>
       ELSE /\ UNCHANGED <<Offset, ExpectedSize>>
            /\ IF ZeroRead(err).retry
               THEN UNCHANGED <<pc, recvRet, log>>
               ELSE /\ recvRet' = Upd(recvRet, s, "false")
                    /\ log' = Upd(log, s, log[s] \o
                                <<ZeroRead(err).log,
                                  IF pc[s] = "header"
                                  THEN <<"Log", "client disconnected">>
                                  ELSE <<"Error", "unable to read full payload">> >>)
                    /\ pc' = Upd(pc, s, "shutdown")
    /\ UNCHANGED <<bStop, ConnectionSocket, exitCode, PayloadSize, PayloadOffset, reqN,
                   callStart, frameStart, Received, wire, sockOps, peerVars>>
    /\ UNCHANGED <<dtor, dispatched, dispVars>>

\* Recv reads k bytes that have arrived.
RecvData(s) ==
    /\ peer[s] \in {"open", "closed"}
    /\ InReceiveAll(s)
    /\ \E k \in 1..Min(ExpectedSize[s], Avail(s)) :
         ReceiveAllIteration(s, k, SubSeq(wire[s], rd[s] + 1, rd[s] + k), errno[s])

\* Recv finds nothing to read on the open connection: it fails with would-block.
RecvWouldBlock(s) ==
    /\ peer[s] = "open"
    /\ ReceiveAllIteration(s, 0, <<>>, SE_EWOULDBLOCK)

\* Recv finds the end of the stream: 0 bytes and no error, so the last error
\* code is the one an earlier call left.
RecvClosed(s) ==
    /\ peer[s] = "closed" /\ Avail(s) = 0
    /\ ReceiveAllIteration(s, 0, <<>>, errno[s])

\* Recv fails on the broken connection.
RecvError(s) ==
    /\ peer[s] \in FatalErrors
    /\ ReceiveAllIteration(s, 0, <<>>, peer[s])

\* What an element count taken from the uint32 u does to the array it is
\* handed to: a count that is negative as an int32 is outside what TArray and
\* std::string are defined for, so the process crashes there (a failed check,
\* an allocation that cannot be met) or carries on with an array that holds
\* nothing of the payload.
NegativeCount(u) == IF ToInt32(u) < 0 THEN {"crash", "proceed"} ELSE {"proceed"}

(***************************************************************************)
(* FMultiSocketMessageHeader::ReceivePayload, after each of its two calls  *)
(* of MultiSocketReceiveAll has left its loop (ExpectedSize <= 0).         *)
(***************************************************************************)
ReceivePayloadHeader(s) ==
    /\ pc[s] = "header" /\ ~LoopCondition(s)
    /\ recvRet' = Upd(recvRet, s, "true")
    /\ LET Magic == ReadU32(HeaderBytes[s], 0)
           Size == ReadU32(HeaderBytes[s], 4)
       IN IF ~MagicOk(Magic)
          THEN /\ log' = Upd(log, s, Append(log[s], <<"Error", "bad network header magic">>))
               /\ pc' = Upd(pc, s, "shutdown")
               /\ UNCHANGED <<PayloadSize, PayloadOffset, ArrayReader, Offset, ExpectedSize,
                              reqN, callStart>>
          ELSE IF IsEmptyPayload(Size)
          THEN /\ log' = Upd(log, s, Append(log[s], <<"Error", "empty payload">>))
               /\ pc' = Upd(pc, s, "shutdown")
               /\ PayloadSize' = Upd(PayloadSize, s, Size)
               /\ UNCHANGED <<PayloadOffset, ArrayReader, Offset, ExpectedSize, reqN, callStart>>
          ELSE \E outcome \in NegativeCount(Size) :
               IF outcome = "crash"
               THEN /\ PayloadSize' = Upd(PayloadSize, s, Size)
                    /\ pc' = Upd(pc, s, "crashed")
                    /\ UNCHANGED <<PayloadOffset, ArrayReader, Offset, ExpectedSize, reqN,
                                   callStart, log>>
               ELSE /\ PayloadSize' = Upd(PayloadSize, s, Size)
                    /\ PayloadOffset' = Upd(PayloadOffset, s, Len(ArrayReader[s]))
                    /\ ArrayReader' = Upd(ArrayReader, s,
                                          ArrayReader[s] \o Fill(ToInt32(Size), Uninit))
                    /\ Offset' = Upd(Offset, s, 0)
                    /\ ExpectedSize' = Upd(ExpectedSize, s, ToInt32(Size))
                    /\ reqN' = Upd(reqN, s, ToInt32(Size))
                    /\ callStart' = Upd(callStart, s, rd[s])
                    /\ pc' = Upd(pc, s, "payload")
                    /\ UNCHANGED log
    /\ UNCHANGED <<bStop, ConnectionSocket, exitCode, HeaderBytes, LastError,
                   frameStart, Received, sockVars, peerVars>>
    /\ UNCHANGED <<dtor, dispatched, dispVars>>

ReceivePayloadDone(s) ==
    /\ pc[s] = "payload" /\ ~LoopCondition(s)
    /\ recvRet' = Upd(recvRet, s, "true")
    /\ pc' = Upd(pc, s, "message")
    /\ HeaderBytes' = Upd(HeaderBytes, s, <<>>)
    /\ UNCHANGED <<bStop, ConnectionSocket, exitCode, ArrayReader, PayloadSize,
                   PayloadOffset, Offset, ExpectedSize, LastError, reqN, callStart,
                   frameStart, outVars, sockVars, peerVars>>
    /\ UNCHANGED <<dtor, dispatched, dispVars>>

(***************************************************************************)
(* FClientHandler.                                                         *)
(***************************************************************************)
\* Faulty variant: Init leaves the stop flag as it finds it.
HandlerInit_noClear(s) ==
    /\ pc[s] = "init"
    /\ pc' = Upd(pc, s, "loop")
    /\ UNCHANGED <<bStop, ConnectionSocket, exitCode, recvVars, outVars, sockVars, peerVars>>
    /\ UNCHANGED <<dtor, dispatched, dispVars>>

\* Init(): the worker clears the stop flag before it enters Run.
HandlerInit(s) ==
    /\ pc[s] = "init"
    /\ bStop' = Upd(bStop, s, FALSE)
    /\ pc' = Upd(pc, s, "loop")
    /\ UNCHANGED <<ConnectionSocket, exitCode, recvVars, outVars, sockVars, peerVars>>
    /\ UNCHANGED <<dtor, dispatched, dispVars>>

\* Stop(), called from outside the worker once the session is constructed.
Stop(s) ==
    /\ pc[s] \notin {"none", "init"}
    /\ dtor[s] # "destroyed"
    /\ bStop' = Upd(bStop, s, TRUE)
    /\ UNCHANGED <<pc, ConnectionSocket, exitCode, recvVars, outVars, sockVars, peerVars>>
    /\ UNCHANGED <<dtor, dispatched, dispVars>>

\* Run, top of the loop: leave it without a socket, or with the stop flag set.
RunReturn(s) ==
    /\ pc[s] = "loop"
    /\ IF ConnectionSocket[s] = NULL
       THEN /\ exitCode' = Upd(exitCode, s, "0")
            /\ UNCHANGED log
       ELSE /\ bStop[s]
            /\ exitCode' = Upd(exitCode, s, "1")
            /\ log' = Upd(log, s, Append(log[s], <<"Warning", "stop the thread">>))
    /\ pc' = Upd(pc, s, "done")
    /\ dispatched' = Upd(dispatched, s, "none")
    /\ UNCHANGED <<bStop, ConnectionSocket, recvVars, Received, sockVars, peerVars>>
    /\ UNCHANGED <<dtor, dispVars>>

\* Faulty variant: the stop flag is not looked at before a frame is read.
RunReceive_ignoresStop(s) ==
    /\ pc[s] = "loop"
    /\ ConnectionSocket[s] # NULL
    /\ ArrayReader' = Upd(ArrayReader, s, <<>>)
    /\ HeaderBytes' = Upd(HeaderBytes, s, Fill(HeaderSize, 0))
    /\ Offset' = Upd(Offset, s, 0)
    /\ ExpectedSize' = Upd(ExpectedSize, s, HeaderSize)
    /\ reqN' = Upd(reqN, s, HeaderSize)
    /\ callStart' = Upd(callStart, s, rd[s])
    /\ frameStart' = Upd(frameStart, s, rd[s])
    /\ recvRet' = Upd(recvRet, s, "none")
    /\ pc' = Upd(pc, s, "header")
    /\ dispatched' = Upd(dispatched, s, "none")
    /\ UNCHANGED <<bStop, ConnectionSocket, exitCode, PayloadSize, PayloadOffset,
                   LastError, outVars, sockVars, peerVars, dtor, dispVars>>

\* Run, top of the loop: a new ArrayReader, ReceivePayload entered, its header
\* buffer zeroed, MultiSocketReceiveAll entered for the header.
RunReceive(s) ==
    /\ pc[s] = "loop"
    /\ ConnectionSocket[s] # NULL
    /\ ~bStop[s]
    /\ ArrayReader' = Upd(ArrayReader, s, <<>>)
    /\ HeaderBytes' = Upd(HeaderBytes, s, Fill(HeaderSize, 0))
    /\ Offset' = Upd(Offset, s, 0)
    /\ ExpectedSize' = Upd(ExpectedSize, s, HeaderSize)
    /\ reqN' = Upd(reqN, s, HeaderSize)
    /\ callStart' = Upd(callStart, s, rd[s])
    /\ frameStart' = Upd(frameStart, s, rd[s])
    /\ recvRet' = Upd(recvRet, s, "none")
    /\ pc' = Upd(pc, s, "header")
    /\ dispatched' = Upd(dispatched, s, "none")
    /\ UNCHANGED <<bStop, ConnectionSocket, exitCode, PayloadSize, PayloadOffset,
                   LastError, outVars, sockVars, peerVars>>
    /\ UNCHANGED <<dtor, dispVars>>

\* What a listener's dispatch of the command comes to: the FExecStatus of the
\* handler, or no handler found.
ExecStatus == {"OK", "Error", "InvalidArgument", "NoHandler"}

\* Faulty variant: a command that failed ends the session.
AfterBroadcast_failureEnds(status) == IF status = "OK" THEN "loop" ELSE "shutdown"

\* Run, after BroadcastReceived: nothing comes back from the listeners, the
\* loop comes round.
AfterBroadcast(status) == "loop"

\* Run, after a frame: the text of the payload and the peer's endpoint are
\* broadcast to the listeners of Received, which dispatch the command.
RunBroadcast(s) ==
    /\ pc[s] = "message"
    /\ \E outcome \in NegativeCount(PayloadSize[s]) :
        IF outcome = "crash"
        THEN /\ pc' = Upd(pc, s, "crashed")
             /\ UNCHANGED <<Received, dispatched, ArrayReader, PayloadSize, PayloadOffset,
                            Offset, ExpectedSize, reqN, recvRet, callStart, frameStart,
                            wire, rd, sent>>
        ELSE /\ LET Message == MultiStringFromBinaryArray(ArrayReader[s])
                    Endpoint == PeerAddress(ConnectionSocket[s])
                IN Received' = Upd(Received, s, Append(Received[s], <<Endpoint, Message>>))
             /\ \E status \in ExecStatus :
                 /\ dispatched' = Upd(dispatched, s, status)
                 /\ pc' = Upd(pc, s, AfterBroadcast(status))
             \* the iteration is over: its locals are gone, and the stream is
             \* looked at from the end of the frame on
             /\ ArrayReader' = Upd(ArrayReader, s, <<>>)
             /\ PayloadSize' = Upd(PayloadSize, s, ToU32(0))
             /\ PayloadOffset' = Upd(PayloadOffset, s, 0)
             /\ Offset' = Upd(Offset, s, 0)
             /\ ExpectedSize' = Upd(ExpectedSize, s, 0)
             /\ reqN' = Upd(reqN, s, 0)
             /\ recvRet' = Upd(recvRet, s, "none")
             /\ callStart' = Upd(callStart, s, 0)
             /\ frameStart' = Upd(frameStart, s, 0)
             /\ wire' = Upd(wire, s, SubSeq(wire[s], rd[s] + 1, Len(wire[s])))
             /\ rd' = Upd(rd, s, 0)
             /\ sent' = Upd(sent, s, Tail(sent[s]))
    /\ UNCHANGED <<bStop, ConnectionSocket, exitCode, HeaderBytes, LastError, log, errno,
                   sockOps, peer, quota, menu>>
    /\ UNCHANGED <<dtor, dispVars>>

\* Faulty variant: the socket is closed without being shut down first.
RunShutdown_closeFirst(s) ==
    /\ pc[s] = "shutdown"
    /\ sockOps' = Upd(sockOps, s, Append(sockOps[s], "Close"))
    /\ pc' = Upd(pc, s, "close")
    /\ UNCHANGED <<bStop, ConnectionSocket, exitCode, recvVars, outVars, errno, wire, rd,
                   peerVars>>
    /\ UNCHANGED <<dtor, dispatched, dispVars>>

\* Faulty variant: what was received of the failed frame is broadcast first.
RunShutdown_notifiesPartial(s) ==
    /\ pc[s] = "shutdown"
    /\ sockOps' = Upd(sockOps, s, Append(sockOps[s], "Shutdown"))
    /\ Received' = Upd(Received, s, Append(Received[s],
                         <<PeerAddress(ConnectionSocket[s]),
                           MultiStringFromBinaryArray(ArrayReader[s])>>))
    /\ pc' = Upd(pc, s, "close")
    /\ UNCHANGED <<bStop, ConnectionSocket, exitCode, recvVars, log, errno, wire, rd,
                   peerVars, dtor, dispatched, dispVars>>

\* Run, ReceivePayload failed: ConnectionSocket->Shutdown(ReadWrite)
RunShutdown(s) ==
    /\ pc[s] = "shutdown"
    /\ sockOps' = Upd(sockOps, s, Append(sockOps[s], "Shutdown"))
    /\ pc' = Upd(pc, s, "close")
    /\ UNCHANGED <<bStop, ConnectionSocket, exitCode, recvVars, outVars, errno, wire, rd,
                   peerVars>>
    /\ UNCHANGED <<dtor, dispatched, dispVars>>

\* ConnectionSocket->Close()
RunClose(s) ==
    /\ pc[s] = "close"
    /\ sockOps' = Upd(sockOps, s, Append(sockOps[s], "Close"))
    /\ pc' = Upd(pc, s, "clear")
    /\ UNCHANGED <<bStop, ConnectionSocket, exitCode, recvVars, outVars, errno, wire, rd,
                   peerVars>>
    /\ UNCHANGED <<dtor, dispatched, dispVars>>

\* Faulty variant: the handle is one variable shared by all sessions.
RunClear_clearsAll(s) ==
    /\ pc[s] = "clear"
    /\ ConnectionSocket' = [t \in Sessions |-> NULL]
    /\ pc' = Upd(pc, s, "stop")
    /\ UNCHANGED <<bStop, exitCode, recvVars, outVars, sockVars, peerVars, dtor, dispatched, dispVars>>

\* ConnectionSocket = NULL
RunClear(s) ==
    /\ pc[s] = "clear"
    /\ ConnectionSocket' = Upd(ConnectionSocket, s, NULL)
    /\ pc' = Upd(pc, s, "stop")
    /\ UNCHANGED <<bStop, exitCode, recvVars, outVars, sockVars, peerVars>>
    /\ UNCHANGED <<dtor, dispatched, dispVars>>

\* Stop(); return 0;
RunStop(s) ==
    /\ pc[s] = "stop"
    /\ bStop' = Upd(bStop, s, TRUE)
    /\ exitCode' = Upd(exitCode, s, "0")
    /\ pc' = Upd(pc, s, "done")
    /\ UNCHANGED <<ConnectionSocket, recvVars, outVars, sockVars, peerVars>>
    /\ UNCHANGED <<dtor, dispatched, dispVars>>

(***************************************************************************)
(* ~FClientHandler, run by the thread that owns the session.  The session  *)
(* is constructed once FRunnableThread::Create has returned, which is      *)
(* after the worker's Init.  Thread->Kill() is FRunnableThread::Kill with  *)
(* its default argument bShouldWait = true: it calls Stop() on the         *)
(* runnable and returns when the worker has left Run.  Neither Kill nor    *)
(* delete Thread touches ConnectionSocket.                                 *)
(***************************************************************************)
\* Thread->Kill(), first half: Runnable->Stop()
DestructorKill(s) ==
    /\ pc[s] \notin {"none", "init"}
    /\ dtor[s] = "none"
    /\ bStop' = Upd(bStop, s, TRUE)
    /\ dtor' = Upd(dtor, s, "kill")
    /\ UNCHANGED <<pc, ConnectionSocket, exitCode, recvVars, outVars, sockVars, peerVars>>
    /\ UNCHANGED <<dispatched, dispVars>>

\* Faulty variant: the worker is not waited for.
DestructorDelete_noWait(s) ==
    /\ dtor[s] = "kill"
    /\ dtor' = Upd(dtor, s, "destroyed")
    /\ UNCHANGED <<runVars, recvVars, outVars, sockVars, peerVars>>
    /\ UNCHANGED <<dispatched, dispVars>>

\* Faulty variant: the destructor closes the socket it was constructed on.
DestructorDelete_closesSocket(s) ==
    /\ dtor[s] = "kill"
    /\ pc[s] = "done"
    /\ dtor' = Upd(dtor, s, "destroyed")
    /\ sockOps' = Upd(sockOps, s, Append(sockOps[s], "Close"))
    /\ UNCHANGED <<runVars, recvVars, outVars, errno, wire, rd, peerVars>>
    /\ UNCHANGED <<dispatched, dispVars>>

\* Thread->Kill(), second half: the worker has finished; delete Thread; the
\* members are destroyed.
DestructorDelete(s) ==
    /\ dtor[s] = "kill"
    /\ pc[s] = "done"
    /\ dtor' = Upd(dtor, s, "destroyed")
    /\ UNCHANGED <<runVars, recvVars, outVars, sockVars, peerVars>>
    /\ UNCHANGED <<dispatched, dispVars>>

(***************************************************************************)
(* The command dispatcher.  A pattern is kept as it is tokenised when it   *)
(* is bound: a sequence of segments, one per whitespace-separated word,    *)
(* each segment a sequence of parts, a part being a literal or one of the  *)
(* placeholders [uint], [float], [str].  A command is tokenised the same   *)
(* way: /camera/0/fov is the parts "/camera/", "0", "/fov".                *)
(***************************************************************************)
UintLiterals == {"0", "1", "00"}
FloatLiterals == UintLiterals \cup {"1.5", "-90"}

\* The [str] values of the commands dispatched in the model.
StrValues == {"png", "Perspective", "none", "abc"}

\* The patterns bound in the model: four of those FCameraHandler binds, and
\* three that overlap them on purpose, each with a handler of its own.
PatternPool ==
    { [segs |-> << <<"vget">>, <<"/screenshot">>, <<"[str]">> >>, handler |-> "GetScreenshot"],
      [segs |-> << <<"vget">>, <<"/cameras">> >>, handler |-> "GetCameraList"],
      [segs |-> << <<"vget">>, <<"/camera/", "[uint]", "/fov">> >>, handler |-> "GetFOV"],
      [segs |-> << <<"vset">>, <<"/camera/", "[uint]", "/fov">>, <<"[float]">> >>,
       handler |-> "SetFOV"],
      [segs |-> << <<"vget">>, <<"/camera/", "[str]", "/fov">> >>, handler |-> "OverlapA"],
      [segs |-> << <<"vget">>, <<"[str]">> >>, handler |-> "OverlapB"],
      [segs |-> << <<"vset">>, <<"/camera/", "[uint]", "/fov">>, <<"[str]">> >>,
       handler |-> "OverlapC"] }

\* The commands dispatched in the model.
CommandPool ==
    { << <<"vget">>, <<"/camera/", "0", "/fov">> >>,
      << <<"vget">>, <<"/camera/", "abc", "/fov">> >>,
      << <<"vget">>, <<"/cameras">> >>,
      << <<"vget">>, <<"/nonsense">> >>,
      << <<"vset">>, <<"/camera/", "1", "/fov">>, <<"1.5">> >>,
      << <<"vget">>, <<"/screenshot">>, <<"png">> >> }

IsPlaceholder(part) == part \in {"[uint]", "[float]", "[str]"}

\* A part of the pattern against the part of the command in its place.
MatchPart(part, text) ==
    IF part = "[uint]" THEN text \in UintLiterals
    ELSE IF part = "[float]" THEN text \in FloatLiterals
    ELSE IF part = "[str]" THEN TRUE
    ELSE text = part

MatchSegment(seg, token) ==
    /\ Len(seg) = Len(token)
    /\ \A i \in 1..Len(seg) : MatchPart(seg[i], token[i])

\* The pattern matches the command: as many segments, each matching.
Matches(pattern, cmd) ==
    /\ Len(pattern.segs) = Len(cmd)
    /\ \A i \in 1..Len(cmd) : MatchSegment(pattern.segs[i], cmd[i])

\* Faulty variant: only a placeholder that is a whole token yields an
\* argument, one inside a path segment yields none.
SegmentArgs_wholeTokens(seg, token, i) ==
    IF i = 1 /\ Len(seg) = 1 /\ IsPlaceholder(seg[1]) THEN <<token[1]>> ELSE <<>>

\* The texts in the places of the placeholders of one segment, left to right.
RECURSIVE SegmentArgs(_, _, _)
SegmentArgs(seg, token, i) ==
    IF i > Len(seg) THEN <<>>
    ELSE (IF IsPlaceholder(seg[i]) THEN <<token[i]>> ELSE <<>>) \o SegmentArgs(seg, token, i + 1)

\* The arguments handed to the handler: those of all segments, left to right.
RECURSIVE Args(_, _, _)
Args(pattern, cmd, i) ==
    IF i > Len(cmd) THEN <<>>
    ELSE SegmentArgs(pattern.segs[i], cmd[i], 1) \o Args(pattern, cmd, i + 1)

\* Faulty variant: the pattern bound last is preferred.
RECURSIVE MatchFrom_lastWins(_, _, _)
MatchFrom_lastWins(reg, cmd, i) ==
    IF i > Len(reg) THEN 0
    ELSE IF MatchFrom_lastWins(reg, cmd, i + 1) # 0 THEN MatchFrom_lastWins(reg, cmd, i + 1)
    ELSE IF Matches(reg[i], cmd) THEN i ELSE 0

\* The patterns are tried in the order they were bound, from the i-th on: the
\* index of the first that matches, or 0.
RECURSIVE MatchFrom(_, _, _)
MatchFrom(reg, cmd, i) ==
    IF i > Len(reg) THEN 0
    ELSE IF Matches(reg[i], cmd) THEN i
    ELSE MatchFrom(reg, cmd, i + 1)

\* Faulty variant: a registration in which the id of the fov pattern is also
\* taken as any text by a second pattern, bound later.
RegisteredPatterns_overlapping ==
    <<
      [segs |-> << <<"vget">>, <<"/camera/", "[uint]", "/fov">> >>,
       handler |-> "GetFOV"],
      [segs |-> << <<"vget">>, <<"/camera/", "[str]", "/fov">> >>,
       handler |-> "GetCameraLocation"]
    >>

\* The patterns FCameraHandler::RegisterCommands binds, in its order.
RegisteredPatterns ==
    <<
      [segs |-> << <<"vget">>, <<"/screenshot">>, <<"[str]">> >>,
       handler |-> "GetScreenshot"],
      [segs |-> << <<"vget">>, <<"/cameras">> >>,
       handler |-> "GetCameraList"],
      [segs |-> << <<"vset">>, <<"/cameras/spawn">> >>,
       handler |-> "SpawnCamera"],
      [segs |-> << <<"vget">>, <<"/camera/", "[uint]", "/location">> >>,
       handler |-> "GetCameraLocation"],
      [segs |-> << <<"vset">>, <<"/camera/", "[uint]", "/location">>,
                  <<"[float]">>, <<"[float]">>, <<"[float]">> >>,
       handler |-> "SetCameraLocation"],
      [segs |-> << <<"vset">>, <<"/camera/", "[uint]", "/moveto">>,
                  <<"[float]">>, <<"[float]">>, <<"[float]">> >>,
       handler |-> "MoveTo"],
      [segs |-> << <<"vget">>, <<"/camera/", "[uint]", "/rotation">> >>,
       handler |-> "GetCameraRotation"],
      [segs |-> << <<"vset">>, <<"/camera/", "[uint]", "/rotation">>,
                  <<"[float]">>, <<"[float]">>, <<"[float]">> >>,
       handler |-> "SetCameraRotation"],
      [segs |-> << <<"vget">>, <<"/camera/", "[uint]", "/lit">>, <<"[str]">> >>,
       handler |-> "GetCameraLit"],
      [segs |-> << <<"vget">>, <<"/camera/", "[uint]", "/depth">>, <<"[str]">> >>,
       handler |-> "GetCameraDepth"],
      [segs |-> << <<"vget">>, <<"/camera/", "[uint]", "/normal">>, <<"[str]">> >>,
       handler |-> "GetCameraNormal"],
      [segs |-> << <<"vget">>, <<"/camera/", "[uint]", "/object_mask">>, <<"[str]">> >>,
       handler |-> "GetCameraObjMask"],
      [segs |-> << <<"vget">>, <<"/camera/", "[uint]", "/seg">>, <<"[str]">> >>,
       handler |-> "GetCameraObjMask"],
      [segs |-> << <<"vset">>, <<"/viewmode">>, <<"[str]">> >>,
       handler |-> "SetPlayerViewMode"],
      [segs |-> << <<"vget">>, <<"/viewmode">> >>,
       handler |-> "GetPlayerViewMode"],
      [segs |-> << <<"vget">>, <<"/camera/", "[uint]", "/fov">> >>,
       handler |-> "GetFOV"],
      [segs |-> << <<"vset">>, <<"/camera/", "[uint]", "/fov">>, <<"[float]">> >>,
       handler |-> "SetFOV"],
      [segs |-> << <<"vset">>, <<"/camera/", "[uint]", "/size">>,
                  <<"[uint]">>, <<"[uint]">> >>,
       handler |-> "SetSize"],
      [segs |-> << <<"vget">>, <<"/camera/", "[uint]", "/size">> >>,
       handler |-> "GetSize"],
      [segs |-> << <<"vset">>, <<"/camera/", "[uint]", "/ortho_width">>, <<"[float]">> >>,
       handler |-> "SetOrthoWidth"],
      [segs |-> << <<"vset">>, <<"/camera/", "[uint]", "/projection_type">>, <<"[str]">> >>,
       handler |-> "SetProjectionType"],
      [segs |-> << <<"vset">>, <<"/camera/", "[uint]", "/lit_source">>, <<"[str]">> >>,
       handler |-> "SetLitSource"],
      [segs |-> << <<"vset">>, <<"/camera/", "[uint]", "/reflection">>, <<"[str]">> >>,
       handler |-> "SetReflectionMethod"],
      [segs |-> << <<"vset">>, <<"/camera/", "[uint]", "/illumination">>, <<"[str]">> >>,
       handler |-> "SetGlobalIlluminationMethod"],
      [segs |-> << <<"vset">>, <<"/camera/", "[uint]", "/exposure_method">>, <<"[str]">> >>,
       handler |-> "SetExposureMethod"],
      [segs |-> << <<"vset">>, <<"/camera/", "[uint]", "/exposure_bias">>, <<"[float]">> >>,
       handler |-> "SetExposureBias"],
      [segs |-> << <<"vset">>, <<"/camera/", "[uint]", "/auto_speed">>,
                  <<"[float]">>, <<"[float]">> >>,
       handler |-> "SetAutoExposureSpeed"],
      [segs |-> << <<"vset">>, <<"/camera/", "[uint]", "/auto_brightness">>,
                  <<"[float]">>, <<"[float]">> >>,
       handler |-> "SetAutoExposureBrightness"],
      [segs |-> << <<"vset">>, <<"/camera/", "[uint]", "/physical_exposure">>,
                  <<"[uint]">> >>,
       handler |-> "SetApplyPhysicalCameraExposure"],
      [segs |-> << <<"vset">>, <<"/camera/", "[uint]", "/motion_blur">>,
                  <<"[float]">>, <<"[float]">>, <<"[float]">>, <<"[uint]">> >>,
       handler |-> "SetMotionBlurParams"],
      [segs |-> << <<"vset">>, <<"/camera/", "[uint]", "/focal">>,
                  <<"[float]">>, <<"[float]">> >>,
       handler |-> "SetFocalParams"]
    >>

\* The command text of a tokenised command: its tokens joined by single
\* spaces.  A text is the sequence of its parts, a space being a part.
RECURSIVE Join(_, _)
Join(cmd, i) ==
    IF i > Len(cmd) THEN <<>>
    ELSE (IF i > 1 THEN <<" ">> ELSE <<>>) \o cmd[i] \o Join(cmd, i + 1)

\* The place of the first space of a text from the i-th part on, or 0.
RECURSIVE FirstSpace(_, _)
FirstSpace(text, i) ==
    IF i > Len(text) THEN 0
    ELSE IF text[i] = " " THEN i
    ELSE FirstSpace(text, i + 1)

\* The tokens of a command text: what stands between the spaces.
RECURSIVE Tokenize(_)
Tokenize(text) ==
    IF text = <<>> THEN <<>>
    ELSE LET k == FirstSpace(text, 1)
         IN IF k = 0 THEN <<text>>
            ELSE (IF k = 1 THEN <<>> ELSE << SubSeq(text, 1, k - 1) >>)
                 \o Tokenize(SubSeq(text, k + 1, Len(text)))

\* The placeholders of a pattern, left to right.
RECURSIVE Placeholders(_, _)
Placeholders(segs, i) ==
    IF i > Len(segs) THEN <<>>
    ELSE SelectSeq(segs[i], IsPlaceholder) \o Placeholders(segs, i + 1)

\* The [float] values of the commands dispatched in the model.
FloatValues == {"1.5", "-90"}

\* The valid values of a placeholder in the model.
ValuesFor(part) ==
    IF part = "[uint]" THEN UintLiterals
    ELSE IF part = "[float]" THEN FloatValues
    ELSE StrValues

\* Every choice of one valid value for each placeholder from the i-th on.
RECURSIVE ValueTuples(_, _)
ValueTuples(ph, i) ==
    IF i > Len(ph) THEN { <<>> }
    ELSE { <<v>> \o t : v \in ValuesFor(ph[i]), t \in ValueTuples(ph, i + 1) }

\* The pattern with the k-th placeholder replaced by the k-th value.
Substitute(pattern, vals) ==
    LET segs == pattern.segs
        before(i) == Len(Placeholders(SubSeq(segs, 1, i - 1), 1))
    IN [i \in 1..Len(segs) |->
           [j \in 1..Len(segs[i]) |->
               IF IsPlaceholder(segs[i][j])
               THEN vals[before(i) + Len(SelectSeq(SubSeq(segs[i], 1, j), IsPlaceholder))]
               ELSE segs[i][j]]]

\* The commands built from a pattern: one for every choice of valid values.
Instances(pattern) ==
    { Substitute(pattern, vals) : vals \in ValueTuples(Placeholders(pattern.segs, 1), 1) }

\* The command texts dispatched to the camera handlers: every registered
\* pattern with every choice of valid values, and the texts of CommandPool.
CameraTexts ==
    UNION { { Join(cmd, 1) : cmd \in Instances(RegisteredPatterns[p]) } :
                p \in 1..Len(RegisteredPatterns) }
    \cup { Join(cmd, 1) : cmd \in CommandPool }

(***************************************************************************)
(* The camera handlers.  The world a handler runs in is reduced to what    *)
(* the handlers ask of it: how many sensors GetFusionSensorList returns,   *)
(* and whether the pawn and its controller are valid.  A handler is an     *)
(* operator from the argument list and the world to the set of its         *)
(* possible outcomes: the FExecStatus it returns, the return statement     *)
(* that produced it (why), and the calls it made on the objects of the     *)
(* world (effects).  Args[0] of the source is args[1] here.                *)
(***************************************************************************)
MaxSensors == 2

\* A null or otherwise invalid object pointer.
NullObject == -1

Worlds == [sensors : 0..MaxSensors, pawn : BOOLEAN, controller : BOOLEAN]

\* FCString::Atoi on the tokens of the model: the value of the leading
\* integer, 0 when there is none.
Atoi(str) ==
    CASE str \in {"1", "1.5"} -> 1
      [] str = "-90" -> 0 - 90
      [] OTHER -> 0

\* FString::ToLower on the tokens of the model.
ToLower(str) == IF str = "Perspective" THEN "perspective" ELSE str

IsValid(obj) == obj # NullObject

Out(status, why, eff) == [status |-> status, why |-> why, effects |-> eff]

\* One call made on an object of the world: a sensor (idx is its place in
\* the sensor list), the pawn, the controller, the world, or a null pointer.
Op(on, idx, op, write) == [on |-> on, idx |-> idx, op |-> op, write |-> write]

\* A member call through a null pointer is undefined: the process crashes in
\* the call, or the call goes through and the handler carries on.
CallOnNull(op) ==
    { Out("Crash", "null", << Op("Null", NullObject, op, TRUE) >>),
      Out("OK", "null", << Op("Null", NullObject, op, TRUE) >>) }

\* USensorBPLib::GetSensorById
GetSensorById(SensorId, w) ==
    IF SensorId < 0 \/ SensorId >= w.sensors THEN NullObject ELSE SensorId

\* FCameraHandler::GetCamera: the sensor, or null with Status set to Error.
GetCamera(args, w) ==
    IF Len(args) < 1 THEN NullObject
    ELSE GetSensorById(Atoi(args[1]), w)

\* The test of SetCameraLocation and SetCameraRotation for the player's
\* camera: a comparison of the id token with the text "0".
IsPlayerCamera(id) == id = "0"

GetCameraList(args, w) == { Out("OK", "", <<>>) }

GetCameraLocation(args, w) ==
    LET cam == GetCamera(args, w)
    IN IF ~IsValid(cam) THEN { Out("Error", "sensor", <<>>) }
       ELSE { Out("OK", "", << Op("Sensor", cam, "GetSensorLocation", FALSE) >>) }

SetCameraLocation(args, w) ==
    LET cam == GetCamera(args, w)
    IN IF ~IsValid(cam) THEN { Out("Error", "sensor", <<>>) }
       ELSE IF Len(args) # 4 THEN { Out("InvalidArgument", "count", <<>>) }
       ELSE IF IsPlayerCamera(args[1])
            THEN IF ~w.pawn THEN { Out("InvalidArgument", "pawn", <<>>) }
                 ELSE { Out("OK", "", << Op("Pawn", NullObject, "SetActorLocation", TRUE) >>) }
       ELSE { Out("OK", "", << Op("Sensor", cam, "SetSensorLocation", TRUE) >>) }

GetCameraRotation(args, w) ==
    LET cam == GetCamera(args, w)
    IN IF ~IsValid(cam) THEN { Out("Error", "sensor", <<>>) }
       ELSE { Out("OK", "", << Op("Sensor", cam, "GetSensorRotation", FALSE) >>) }

\* Faulty variant: the rotation of the sensor is set before the pawn and the
\* controller are looked at.
SetCameraRotation_setsFirst(args, w) ==
    LET cam == GetCamera(args, w)
        set == << Op("Sensor", cam, "SetSensorRotation", TRUE) >>
    IN IF ~IsValid(cam) THEN { Out("Error", "sensor", <<>>) }
       ELSE IF Len(args) # 4 THEN { Out("InvalidArgument", "count", <<>>) }
       ELSE IF IsPlayerCamera(args[1])
            THEN IF ~w.pawn THEN { Out("InvalidArgument", "pawn", set) }
                 ELSE IF ~w.controller
                      THEN { Out("InvalidArgument", "controller",
                                 set \o << Op("Pawn", NullObject, "GetController", FALSE) >>) }
                 ELSE { Out("OK", "", set \o
                                      << Op("Pawn", NullObject, "GetController", FALSE),
                                         Op("Controller", NullObject, "ClientSetRotation", TRUE) >>) }
       ELSE { Out("OK", "", set) }

SetCameraRotation(args, w) ==
    LET cam == GetCamera(args, w)
    IN IF ~IsValid(cam) THEN { Out("Error", "sensor", <<>>) }
       ELSE IF Len(args) # 4 THEN { Out("InvalidArgument", "count", <<>>) }
       ELSE IF IsPlayerCamera(args[1])
            THEN IF ~w.pawn THEN { Out("InvalidArgument", "pawn", <<>>) }
                 ELSE IF ~w.controller
                      THEN { Out("InvalidArgument", "controller",
                                 << Op("Pawn", NullObject, "GetController", FALSE) >>) }
                 ELSE { Out("OK", "", << Op("Pawn", NullObject, "GetController", FALSE),
                                         Op("Controller", NullObject, "ClientSetRotation", TRUE) >>) }
       ELSE { Out("OK", "", << Op("Sensor", cam, "SetSensorRotation", TRUE) >>) }

\* SerializeData: Binary, OK with the file name, or Error for a file name of
\* no known type.  Which one is left open here.
SerializeData(eff) ==
    { Out("Binary", "", eff), Out("OK", "", eff), Out("Error", "filename", eff) }

\* SaveData, after the capture made the calls eff on the sensor.
SaveData(args, eff) ==
    IF Len(args) # 2 THEN { Out("Error", "count", eff) }
    ELSE { Out("Error", "data", eff) } \cup SerializeData(eff)

\* GetCameraLit, GetCameraDepth, GetCameraNormal, GetCameraObjMask: they
\* differ in the capture call only.
Capture(args, w, op) ==
    LET cam == GetCamera(args, w)
    IN IF ~IsValid(cam) THEN { Out("Error", "sensor", <<>>) }
       ELSE SaveData(args, << Op("Sensor", cam, op, FALSE) >>)

GetCameraLit(args, w) == Capture(args, w, "GetLit")

GetCameraDepth(args, w) == Capture(args, w, "GetDepth")

GetCameraNormal(args, w) == Capture(args, w, "GetNormal")

GetCameraObjMask(args, w) == Capture(args, w, "GetSeg")

\* MoveTo: the pawn is used as GetPawn() returns it.
MoveTo(args, w) ==
    IF Len(args) # 4 THEN { Out("InvalidArgument", "count", <<>>) }
    ELSE IF args[1] # "0" THEN { Out("Error", "value", <<>>) }
    ELSE IF ~w.pawn THEN CallOnNull("SetActorLocation")
    ELSE { Out("OK", "", << Op("Pawn", NullObject, "SetActorLocation", TRUE) >>) }

\* GetScreenshot reads Args[0] without a look at Args.Num().
GetScreenshot(args, w) ==
    IF Len(args) < 1 THEN { Out("Crash", "index", <<>>) }
    ELSE SerializeData(<< Op("World", NullObject, "GetViewportScreenShot", FALSE) >>)

\* SetPlayerViewMode and GetPlayerViewMode hand the arguments to the
\* PlayerViewMode object of the world controller, whatever it answers.
SetPlayerViewMode(args, w) ==
    { Out("OK", "external", << Op("World", NullObject, "SetMode", TRUE) >>),
      Out("Error", "external", << Op("World", NullObject, "SetMode", TRUE) >>),
      Out("InvalidArgument", "external", << Op("World", NullObject, "SetMode", TRUE) >>) }

GetPlayerViewMode(args, w) ==
    { Out("OK", "external", << Op("World", NullObject, "GetMode", FALSE) >>),
      Out("Error", "external", << Op("World", NullObject, "GetMode", FALSE) >>) }

SpawnCamera(args, w) ==
    { Out("OK", "", << Op("World", NullObject, "SpawnActor", TRUE) >>),
      Out("Error", "spawn", << Op("World", NullObject, "SpawnActor", FALSE) >>) }

\* The handlers that look the sensor up, return InvalidArgument when it is
\* invalid or when the arguments are not n, and make the calls ops on it.
Checked(args, w, n, ops, write) ==
    LET cam == GetCamera(args, w)
    IN IF ~IsValid(cam) THEN { Out("InvalidArgument", "sensor", <<>>) }
       ELSE IF Len(args) # n THEN { Out("InvalidArgument", "count", <<>>) }
       ELSE { Out("OK", "", [k \in 1..Len(ops) |-> Op("Sensor", cam, ops[k], write)]) }

\* The same, for a setter of one option out of a list: Error for an option
\* that is not in the list.
CheckedOption(args, w, options, op) ==
    LET cam == GetCamera(args, w)
    IN IF ~IsValid(cam) THEN { Out("InvalidArgument", "sensor", <<>>) }
       ELSE IF Len(args) # 2 THEN { Out("InvalidArgument", "count", <<>>) }
       ELSE IF ToLower(args[2]) \in options
            THEN { Out("OK", "", << Op("Sensor", cam, op, TRUE) >>) }
       ELSE { Out("Error", "value", <<>>) }

GetFOV(args, w) == Checked(args, w, 1, <<"GetSensorFOV">>, FALSE)

SetFOV(args, w) == Checked(args, w, 2, <<"SetSensorFOV">>, TRUE)

GetSize(args, w) == Checked(args, w, 1, <<"GetFilmWidth", "GetFilmHeight">>, FALSE)

SetSize(args, w) == Checked(args, w, 3, <<"SetFilmSize">>, TRUE)

\* SetProjectionType and SetOrthoWidth use the sensor as GetCamera returns it.
SetProjectionType(args, w) ==
    IF Len(args) # 2 THEN { Out("InvalidArgument", "count", <<>>) }
    ELSE LET cam == GetCamera(args, w)
         IN IF ToLower(args[2]) \in {"perspective", "orthographic"}
            THEN IF IsValid(cam)
                 THEN { Out("OK", "", << Op("Sensor", cam, "SetProjectionType", TRUE) >>) }
                 ELSE CallOnNull("SetProjectionType")
            ELSE { Out("Error", "value", <<>>) }

SetOrthoWidth(args, w) ==
    IF Len(args) # 2 THEN { Out("InvalidArgument", "count", <<>>) }
    ELSE LET cam == GetCamera(args, w)
         IN IF IsValid(cam)
            THEN { Out("OK", "", << Op("Sensor", cam, "SetOrthoWidth", TRUE) >>) }
            ELSE CallOnNull("SetOrthoWidth")

SetExposureMethod(args, w) ==
    CheckedOption(args, w, {"histogram", "basic", "manual"}, "SetExposureMethod")

SetLitSource(args, w) ==
    CheckedOption(args, w, {"ftc_hdr", "fc_hdr", "sc_hdr", "scna_hdr", "ldr", "base",
                            "color_depth", "scene_depth", "device_depth", "normal"},
                  "SetLitCaptureSource")

SetReflectionMethod(args, w) ==
    CheckedOption(args, w, {"none", "lumen", "screen_space"}, "SetReflectionMethod")

SetGlobalIlluminationMethod(args, w) ==
    CheckedOption(args, w, {"none", "lumen", "screen_space", "plugin"},
                  "SetGlobalIlluminationMethod")

SetExposureBias(args, w) == Checked(args, w, 2, <<"SetExposureBias">>, TRUE)

SetAutoExposureSpeed(args, w) == Checked(args, w, 3, <<"SetAutoExposureSpeed">>, TRUE)

SetAutoExposureBrightness(args, w) ==
    Checked(args, w, 3, <<"SetAutoExposureBrightness">>, TRUE)

SetApplyPhysicalCameraExposure(args, w) ==
    Checked(args, w, 2, <<"SetApplyPhysicalCameraExposure">>, TRUE)

\* Faulty variant: the handler asks for the id and three values, one fewer
\* than its pattern supplies.
SetMotionBlurParams_fourArgs(args, w) ==
    Checked(args, w, 4, <<"SetMotionBlurParams">>, TRUE)

SetMotionBlurParams(args, w) == Checked(args, w, 5, <<"SetMotionBlurParams">>, TRUE)

SetFocalParams(args, w) == Checked(args, w, 3, <<"SetFocalParams">>, TRUE)

\* The delegate bound to the pattern: the handler of that name.  A handler
\* that is none of FCameraHandler's answers OK.
RunHandler(handler, args, w) ==
    CASE handler = "GetScreenshot" -> GetScreenshot(args, w)
      [] handler = "GetCameraList" -> GetCameraList(args, w)
      [] handler = "SpawnCamera" -> SpawnCamera(args, w)
      [] handler = "GetCameraLocation" -> GetCameraLocation(args, w)
      [] handler = "SetCameraLocation" -> SetCameraLocation(args, w)
      [] handler = "MoveTo" -> MoveTo(args, w)
      [] handler = "GetCameraRotation" -> GetCameraRotation(args, w)
      [] handler = "SetCameraRotation" -> SetCameraRotation(args, w)
      [] handler = "GetCameraLit" -> GetCameraLit(args, w)
      [] handler = "GetCameraDepth" -> GetCameraDepth(args, w)
      [] handler = "GetCameraNormal" -> GetCameraNormal(args, w)
      [] handler = "GetCameraObjMask" -> GetCameraObjMask(args, w)
      [] handler = "SetPlayerViewMode" -> SetPlayerViewMode(args, w)
      [] handler = "GetPlayerViewMode" -> GetPlayerViewMode(args, w)
      [] handler = "GetFOV" -> GetFOV(args, w)
      [] handler = "SetFOV" -> SetFOV(args, w)
      [] handler = "SetSize" -> SetSize(args, w)
      [] handler = "GetSize" -> GetSize(args, w)
      [] handler = "SetOrthoWidth" -> SetOrthoWidth(args, w)
      [] handler = "SetProjectionType" -> SetProjectionType(args, w)
      [] handler = "SetLitSource" -> SetLitSource(args, w)
      [] handler = "SetReflectionMethod" -> SetReflectionMethod(args, w)
      [] handler = "SetGlobalIlluminationMethod" -> SetGlobalIlluminationMethod(args, w)
      [] handler = "SetExposureMethod" -> SetExposureMethod(args, w)
      [] handler = "SetExposureBias" -> SetExposureBias(args, w)
      [] handler = "SetAutoExposureSpeed" -> SetAutoExposureSpeed(args, w)
      [] handler = "SetAutoExposureBrightness" -> SetAutoExposureBrightness(args, w)
      [] handler = "SetApplyPhysicalCameraExposure" -> SetApplyPhysicalCameraExposure(args, w)
      [] handler = "SetMotionBlurParams" -> SetMotionBlurParams(args, w)
      [] handler = "SetFocalParams" -> SetFocalParams(args, w)
      [] OTHER -> { Out("OK", "", <<>>) }

\* CommandDispatcher->BindCommand(pattern, handler, description), called from
\* RegisterCommands at startup, before the first command is dispatched.
BindCommand(pattern) ==
    /\ command = <<>>
    /\ Len(registry) < MaxPatterns
    /\ \A i \in 1..Len(registry) : registry[i].segs # pattern.segs
    /\ registry' = Append(registry, pattern)
    /\ UNCHANGED <<runVars, recvVars, outVars, sockVars, peerVars, dtor, dispatched,
                   command, invoked, result, effects, world, filename, filenameType,
                   scene, sensorList, sensorId, sensor>>

\* Faulty variant: a command that matches nothing is answered like a handler
\* that rejects its arguments, without the command text.
Exec_noMatchInvalidArgument(cmd) ==
    /\ command' = cmd
    /\ LET m == MatchFrom(registry, cmd, 1)
       IN IF m = 0
          THEN /\ invoked' = <<>>
               /\ result' = [status |-> "InvalidArgument", why |-> "nomatch", text |-> <<>>]
               /\ effects' = <<>>
          ELSE \E o \in RunHandler(registry[m].handler, Args(registry[m], cmd, 1), world) :
                   /\ invoked' = << [handler |-> registry[m].handler,
                                     args |-> Args(registry[m], cmd, 1)] >>
                   /\ result' = [status |-> o.status, why |-> o.why, text |-> <<>>]
                   /\ effects' = o.effects
    /\ UNCHANGED <<runVars, recvVars, outVars, sockVars, peerVars, dtor, dispatched,
                   registry, world, filename, filenameType,
                   scene, sensorList, sensorId, sensor>>

\* The dispatch of one command: the handler of the first pattern that matches
\* is called with the arguments extracted, and its result is the result of
\* the dispatch; when none matches no handler is called and the result is an
\* Error that names the command text.
Exec(cmd) ==
    /\ command' = cmd
    /\ LET m == MatchFrom(registry, cmd, 1)
       IN IF m = 0
          THEN /\ invoked' = <<>>
               /\ result' = [status |-> "Error", why |-> "nomatch", text |-> Join(cmd, 1)]
               /\ effects' = <<>>
          ELSE \E o \in RunHandler(registry[m].handler, Args(registry[m], cmd, 1), world) :
                   /\ invoked' = << [handler |-> registry[m].handler,
                                     args |-> Args(registry[m], cmd, 1)] >>
                   /\ result' = [status |-> o.status, why |-> o.why, text |-> <<>>]
                   /\ effects' = o.effects
    /\ UNCHANGED <<runVars, recvVars, outVars, sockVars, peerVars, dtor, dispatched,
                   registry, world, filename, filenameType,
                   scene, sensorList, sensorId, sensor>>

\* A command text arrives at a dispatcher that is idle: it is tokenised and
\* dispatched.
ExecText(text) ==
    /\ command = <<>>
    /\ Exec(Tokenize(text))

\* The result has been handed back: the dispatcher is idle again.
Reply ==
    /\ command # <<>>
    /\ command' = <<>>
    /\ invoked' = <<>>
    /\ result' = NoResult
    /\ effects' = <<>>
    /\ UNCHANGED <<runVars, recvVars, outVars, sockVars, peerVars, dtor, dispatched,
                   registry, world, filename, filenameType,
                   scene, sensorList, sensorId, sensor>>

Next ==
    \E s \in Sessions :
        \/ HandlerInit(s)
        \/ Stop(s)
        \/ RunReturn(s)
        \/ RunReceive(s)
        \/ RecvData(s)
        \/ RecvWouldBlock(s)
        \/ RecvClosed(s)
        \/ RecvError(s)
        \/ ReceivePayloadHeader(s)
        \/ ReceivePayloadDone(s)
        \/ RunBroadcast(s)
        \/ RunShutdown(s)
        \/ RunClose(s)
        \/ RunClear(s)
        \/ RunStop(s)
        \/ PeerSend(s)
        \/ PeerSendPartial(s)
        \/ PeerClose(s)
        \/ PeerFail(s)

Spec == Init /\ [][Next]_vars

SpecTwo == InitTwo /\ [][Next]_vars

\* The steps of the worker thread of session s: Init, Run and what Run calls.
WorkerStep(s) ==
    \/ HandlerInit(s)
    \/ RunReturn(s)
    \/ RunReceive(s)
    \/ RecvData(s)
    \/ RecvWouldBlock(s)
    \/ RecvClosed(s)
    \/ RecvError(s)
    \/ ReceivePayloadHeader(s)
    \/ ReceivePayloadDone(s)
    \/ RunBroadcast(s)
    \/ RunShutdown(s)
    \/ RunClose(s)
    \/ RunClear(s)
    \/ RunStop(s)

\* One client, served by a worker thread that the scheduler keeps running:
\* the worker is a thread of its own (FRunnableThread::Create), so a step it
\* can take is taken in the end.
SpecFair == Spec /\ \A s \in Sessions : WF_vars(WorkerStep(s))

\* One client that writes its headers itself, declaring any length.
InitWide == InitWith({1}, MaxFrames, [s \in Sessions |-> WideItems])

SpecWide == InitWide /\ [][Next]_vars

\* One client, and an owner that may destroy the session at any moment.
NextLife ==
    \/ Next
    \/ \E s \in Sessions : DestructorKill(s) \/ DestructorDelete(s)

SpecLife == Init /\ [][NextLife]_vars

\* The dispatcher alone: patterns are bound and commands dispatched, no
\* session exists.
InitDispatch == InitWith({}, 0, [s \in Sessions |-> {}])

NextDispatch ==
    \/ \E pattern \in PatternPool : BindCommand(pattern)
    \/ \E cmd \in CommandPool : Exec(cmd)

SpecDispatch == InitDispatch /\ [][NextDispatch]_vars

\* The camera handlers behind the dispatcher: RegisterCommands has bound its
\* patterns, the game is in any of the worlds, and command texts are
\* dispatched one after the other.
InitCamera ==
    /\ InitSessions({}, 0, [s \in Sessions |-> {}])
    /\ registry = RegisteredPatterns
    /\ command = <<>>
    /\ invoked = <<>>
    /\ result = NoResult
    /\ effects = <<>>
    /\ world \in Worlds
    /\ InitLib

NextCamera ==
    \/ \E text \in CameraTexts : ExecText(text)
    \/ Reply

SpecCamera == InitCamera /\ [][NextCamera]_vars

(***************************************************************************)
(* FCameraHandler::ParseFilenameType.  A file name is a sequence of         *)
(* one-character strings, so that its letters, dots and path separators    *)
(* can be told apart.                                                      *)
(***************************************************************************)
MaxPieces == 4

UpperCase == << "A", "B", "C", "D", "E", "F", "G", "H", "I", "J", "K", "L", "M",
                "N", "O", "P", "Q", "R", "S", "T", "U", "V", "W", "X", "Y", "Z" >>
LowerCase == << "a", "b", "c", "d", "e", "f", "g", "h", "i", "j", "k", "l", "m",
                "n", "o", "p", "q", "r", "s", "t", "u", "v", "w", "x", "y", "z" >>

\* TChar::ToLower
ToLowerChar(ch) ==
    IF \E i \in 1..Len(UpperCase) : UpperCase[i] = ch
    THEN LowerCase[CHOOSE i \in 1..Len(UpperCase) : UpperCase[i] = ch]
    ELSE ch

\* FString::ToLowerInline
ToLowerInline(str) == [i \in 1..Len(str) |-> ToLowerChar(str[i])]

\* The extensions ParseFilenameType knows.
TextPng == << "p", "n", "g" >>
TextBmp == << "b", "m", "p" >>
TextNpy == << "n", "p", "y" >>
TextExr == << "e", "x", "r" >>

\* The pieces file names are put together from: extensions in lower, upper
\* and mixed case, another name, the dot and the two path separators.
NamePieces ==
    { TextPng, << "P", "N", "G" >>, TextBmp, << "N", "p", "y" >>, TextExr,
      << "E", "X", "R" >>, << "a" >>, << "." >>, << "/" >>, << "\\" >> }

RECURSIVE Concat(_, _)
Concat(pieces, i) ==
    IF i > Len(pieces) THEN << >> ELSE pieces[i] \o Concat(pieces, i + 1)

\* The arguments ParseFilenameType is called with: every text of up to
\* MaxPieces pieces that names a file, i.e. does not end in a path separator.
Filenames ==
    { name \in { Concat(pieces, 1) : pieces \in SeqsUpTo(NamePieces, MaxPieces) } :
        name = << >> \/ name[Len(name)] \notin {"/", "\\"} }

\* The last place of str that holds a character of the set, 0 if none does.
FindLastCharByPredicate(str, chars) ==
    IF \E i \in 1..Len(str) : str[i] \in chars
    THEN CHOOSE i \in 1..Len(str) :
            /\ str[i] \in chars
            /\ \A j \in (i + 1)..Len(str) : str[j] \notin chars
    ELSE 0

\* FString::FindChar: whether the character occurs in the text.
FindChar(str, ch) == \E i \in 1..Len(str) : str[i] = ch

\* FPaths::GetCleanFilename: the text after the last path separator.
GetCleanFilename(InPath) ==
    SubSeq(InPath, FindLastCharByPredicate(InPath, {"/", "\\"}) + 1, Len(InPath))

\* FPaths::GetExtension(InPath, bIncludeDot = false): the text after the last
\* dot of the clean file name, the empty text if it has no dot.
GetExtension(InPath) ==
    LET CleanFilename == GetCleanFilename(InPath)
        DotPos == FindLastCharByPredicate(CleanFilename, {"."})
    IN IF DotPos = 0 THEN << >>
       ELSE SubSeq(CleanFilename, DotPos + 1, Len(CleanFilename))

\* Faulty variant: texts are equal only letter for letter, case included.
FStringEquals_caseSensitive(Lhs, Rhs) == Lhs = Rhs

\* FString::operator==: the comparison ignores letter case.
FStringEquals(Lhs, Rhs) == ToLowerInline(Lhs) = ToLowerInline(Rhs)

\* FCameraHandler::ParseFilenameType
ParseFilenameType(Filename) ==
    LET Lowered == ToLowerInline(GetExtension(Filename))
        FileExtension == IF ~FindChar(Filename, ".") THEN Filename ELSE Lowered
    IN IF FStringEquals(FileExtension, Filename)
       THEN IF FStringEquals(FileExtension, TextPng) THEN "PngBinary"
            ELSE IF FStringEquals(FileExtension, TextBmp) THEN "BmpBinary"
            ELSE IF FStringEquals(FileExtension, TextNpy) THEN "NpyBinary"
            ELSE "Invalid"
       ELSE IF FStringEquals(FileExtension, TextPng) THEN "Png"
            ELSE IF FStringEquals(FileExtension, TextBmp) THEN "Bmp"
            ELSE IF FStringEquals(FileExtension, TextNpy) THEN "Npy"
            ELSE IF FStringEquals(FileExtension, TextExr) THEN "Exr"
            ELSE "Invalid"

\* One call of ParseFilenameType on the file name at hand.
ParseFilename ==
    /\ filenameType = "none"
    /\ filenameType' = ParseFilenameType(filename)
    /\ UNCHANGED <<sessVars, registry, command, invoked, result, effects, world,
                   filename, scene, sensorList, sensorId, sensor>>

\* ParseFilenameType alone: it is called once on any of the file names.
InitFilename ==
    /\ InitSessions({}, 0, [s \in Sessions |-> {}])
    /\ registry = << >>
    /\ command = << >>
    /\ invoked = << >>
    /\ result = NoResult
    /\ effects = << >>
    /\ world = [sensors |-> 0, pawn |-> FALSE, controller |-> FALSE]
    /\ filename \in Filenames
    /\ filenameType = "none"
    /\ scene = NoScene
    /\ sensorList = << >>
    /\ sensorId = NoId
    /\ sensor = NoId

SpecFilename == InitFilename /\ [][ParseFilename]_vars

(***************************************************************************)
(* USensorBPLib: the sensor list.  The objects of class UFusionCamSensor   *)
(* in memory are numbered; each is a component of the player pawn, a       *)
(* component of another actor of the game world, an object of the editor   *)
(* world, or the class default object.                                     *)
(***************************************************************************)
MaxObjects == 3

\* The orders in which the object hash can hand out n objects.
Orders(n) == {f \in [1..n -> 1..n] : \A i, j \in 1..n : f[i] = f[j] => i = j}

\* objects is the order of the object hash, pawn says whether the pawn is
\* valid and world whether the server has a world.
Scenes ==
    UNION { [objects : Orders(n), kind : [1..n -> {"pawn", "game", "editor", "cdo"}],
             pawn : BOOLEAN, world : BOOLEAN] : n \in 0..MaxObjects }

\* APawn::K2_GetComponentsByClass(UFusionCamSensor::StaticClass()): the
\* sensors that are components of the pawn, in the order of its components.
K2_GetComponentsByClass(sc) ==
    LET own == {o \in DOMAIN sc.kind : sc.kind[o] = "pawn"}
    IN CHOOSE q \in [1..Cardinality(own) -> own] :
          \A i, j \in 1..Cardinality(own) : i < j => q[i] < q[j]

\* GetObjectsOfClass with ExclusionFlags = RF_ClassDefaultObject: the objects
\* of the class in the order of the object hash, the default object left out.
GetObjectsOfClass(sc) ==
    LET kept == {i \in 1..Len(sc.objects) : sc.kind[sc.objects[i]] # "cdo"}
        place(k) == CHOOSE i \in kept : Cardinality({j \in kept : j < i}) = k - 1
    IN [k \in 1..Cardinality(kept) |-> sc.objects[place(k)]]

\* UActorComponent::GetWorld: the world of the object's owner.
GetWorld(sc, o) ==
    IF sc.kind[o] \in {"pawn", "game"} THEN "game"
    ELSE IF sc.kind[o] = "editor" THEN "editor"
    ELSE "null"

\* TArray::Contains
Contains(list, o) == \E i \in 1..Len(list) : list[i] = o

\* Faulty variant: the sensor is added whether the list holds it or not.
AddSensor_always(SensorList, FusionSensor) == Append(SensorList, FusionSensor)

\* Lines 43-46 of GetFusionSensorList: add the sensor unless the list holds it.
AddSensor(SensorList, FusionSensor) ==
    IF Contains(SensorList, FusionSensor) = FALSE
    THEN Append(SensorList, FusionSensor)
    ELSE SensorList

\* The loop of GetFusionSensorList over the object list, from place i on.
RECURSIVE FilterWorld(_, _, _, _)
FilterWorld(sc, SensorList, UObjectList, i) ==
    IF i > Len(UObjectList) THEN SensorList
    ELSE IF GetWorld(sc, UObjectList[i]) # "game"
         THEN FilterWorld(sc, SensorList, UObjectList, i + 1)
         ELSE FilterWorld(sc, AddSensor(SensorList, UObjectList[i]), UObjectList, i + 1)

\* USensorBPLib::GetFusionSensorList
GetFusionSensorList(sc) ==
    IF ~sc.world THEN << >>
    ELSE LET first == IF sc.pawn THEN K2_GetComponentsByClass(sc) ELSE << >>
         IN FilterWorld(sc, first, GetObjectsOfClass(sc), 1)

\* USensorBPLib::GetSensorById on the list it has just built.
SensorAt(SensorId, SensorList) ==
    IF SensorId < 0 \/ SensorId >= Len(SensorList) THEN NullObject
    ELSE SensorList[SensorId + 1]

\* One call of GetSensorById: it builds the sensor list and looks the id up.
LookupSensor(SensorId) ==
    /\ sensorId = NoId
    /\ sensorList' = GetFusionSensorList(scene)
    /\ sensorId' = SensorId
    /\ sensor' = SensorAt(SensorId, sensorList')
    /\ UNCHANGED <<sessVars, registry, command, invoked, result, effects, world,
                   filename, filenameType, scene>>

\* The sensor library alone: GetSensorById is called once in any scene.
InitSensors ==
    /\ InitSessions({}, 0, [s \in Sessions |-> {}])
    /\ registry = << >>
    /\ command = << >>
    /\ invoked = << >>
    /\ result = NoResult
    /\ effects = << >>
    /\ world = [sensors |-> 0, pawn |-> FALSE, controller |-> FALSE]
    /\ filename = << >>
    /\ filenameType = "none"
    /\ scene \in Scenes
    /\ sensorList = << >>
    /\ sensorId = NoId
    /\ sensor = NoId

SpecSensors ==
    InitSensors /\ [][\E SensorId \in -1..(MaxObjects + 1) : LookupSensor(SensorId)]_vars

(***************************************************************************)
(* The claims.                                                             *)
(***************************************************************************)
Present == {s \in Sessions : pc[s] # "none"}

\* The worker is in the failing branch of Run, or has left Run.
Torn(s) == pc[s] \in {"shutdown", "close", "clear", "stop", "done"}

\* The step is a Recv of session s that read no byte: nothing of the peer, of
\* the stream position or of the stop flag changes in it.
ZeroByteRead(s) ==
    /\ InReceiveAll(s)
    /\ rd'[s] = rd[s]
    /\ bStop' = bStop
    /\ peerVars' = peerVars
    /\ wire' = wire

\* C1: MultiSocketReceiveAll reports success only after exactly the requested
\* n bytes have been read. While a call runs, the bytes it has consumed from
\* the socket are the Offset bytes it has stored, never more than n; a call
\* that returned true has stored and consumed exactly n (the header call:
\* HeaderSize bytes from the start of the frame); a call that returned false
\* has stored fewer than n.
C1_ExactlyN ==
    \A s \in Present :
        /\ pc[s] \in {"header", "payload", "message"} =>
             /\ rd[s] - callStart[s] = Offset[s]
             /\ Offset[s] + ExpectedSize[s] = reqN[s]
             /\ 0 <= Offset[s] /\ Offset[s] <= reqN[s]
        /\ (recvRet[s] = "true" /\ pc[s] \notin {"header", "payload"}) =>
             /\ Offset[s] = reqN[s]
             /\ rd[s] - callStart[s] = reqN[s]
        /\ pc[s] \in {"payload", "message"} =>
             callStart[s] - frameStart[s] = HeaderSize
        /\ recvRet[s] = "false" =>
             /\ Offset[s] < reqN[s]
             /\ rd[s] - callStart[s] = Offset[s]

\* C1, witness: a payload of two bytes was received in full after the socket
\* had reported would-block.
C1_Witness ==
    \E s \in Present :
        /\ pc[s] = "message" /\ recvRet[s] = "true"
        /\ reqN[s] = 2 /\ Offset[s] = 2
        /\ errno[s] = SE_EWOULDBLOCK

\* C2: the bytes MultiSocketReceiveAll has stored are the bytes the peer sent,
\* in order: position i of the buffer holds the i-th byte of the stream after
\* the start of the call for every i up to Offset, the positions beyond are
\* untouched, and on success the buffer is the sent sequence.
C2_BufferIsStream ==
    \A s \in Present :
        /\ pc[s] = "header" =>
             /\ Len(HeaderBytes[s]) = HeaderSize
             /\ \A i \in 1..HeaderSize :
                  HeaderBytes[s][i] = IF i <= Offset[s] THEN wire[s][callStart[s] + i] ELSE 0
        /\ pc[s] = "payload" =>
             HeaderBytes[s] = SubSeq(wire[s], frameStart[s] + 1, frameStart[s] + HeaderSize)
        /\ pc[s] \in {"payload", "message"} =>
             /\ Len(ArrayReader[s]) = PayloadOffset[s] + reqN[s]
             /\ \A i \in 1..reqN[s] :
                  ArrayReader[s][PayloadOffset[s] + i] =
                     IF i <= Offset[s] THEN wire[s][callStart[s] + i] ELSE Uninit
        /\ pc[s] = "message" =>
             ArrayReader[s] = SubSeq(wire[s], callStart[s] + 1, callStart[s] + reqN[s])

\* C2, witness: the first byte of a two-byte payload is stored, the second is
\* still to come, and the socket has reported would-block.
C2_Witness ==
    \E s \in Present :
        /\ pc[s] = "payload" /\ reqN[s] = 2 /\ Offset[s] = 1
        /\ ArrayReader[s][1] = 97
        /\ LastError[s] = SE_EWOULDBLOCK

\* C3: a Recv that reads no byte while the last error code is would-block is a
\* no-op: the offset, the remaining count, the buffers, the stream position and
\* everything else the worker owns are unchanged, and the worker is still in
\* the receive loop, where the next Recv stores at the same offset.
C3_WouldBlockNoOp ==
    [][\A s \in Present :
         (ZeroByteRead(s) /\ LastError'[s] = SE_EWOULDBLOCK) =>
            /\ pc'[s] = pc[s]
            /\ Offset'[s] = Offset[s]
            /\ ExpectedSize'[s] = ExpectedSize[s]
            /\ HeaderBytes'[s] = HeaderBytes[s]
            /\ ArrayReader'[s] = ArrayReader[s]
            /\ recvRet'[s] = recvRet[s]
            /\ log'[s] = log[s]
            /\ Received'[s] = Received[s]
            /\ sockOps'[s] = sockOps[s]
            /\ ConnectionSocket'[s] = ConnectionSocket[s]
            /\ exitCode'[s] = exitCode[s]]_vars

\* C3, witness: a frame was received in full and is about to be broadcast by a
\* worker whose receive loop saw would-block before the frame's last bytes.
C3_Witness ==
    \E s \in Present :
        /\ pc[s] = "message" /\ Received[s] = <<>>
        /\ LastError[s] = SE_EWOULDBLOCK
        /\ ArrayReader[s] = <<97, 0>>

\* The call of MultiSocketReceiveAll that ended the session's reading ended
\* short of the requested count: it returned on a read of zero bytes.
EndedByZeroRead(s) == Torn(s) /\ Offset[s] < reqN[s]

\* C4, as claimed: the outcome of MultiSocketReceiveAll tells a graceful close
\* (zero bytes, no error) from a fatal socket error: of two sessions whose
\* receive ended on a zero-byte read, one with no error and the other with an
\* error code, the returned values differ.
C4_DistinctOutcomes ==
    \A s1, s2 \in Present :
        (/\ EndedByZeroRead(s1) /\ LastError[s1] = SE_NO_ERROR
         /\ EndedByZeroRead(s2) /\ LastError[s2] \in FatalErrors)
        => recvRet[s1] # recvRet[s2]

\* C4, amended: every terminal condition is reported as the same outcome. A
\* zero-byte read whose error code is not would-block (no error, connection
\* aborted, not connected or any other code) ends the receive with false and
\* sends the session to its teardown; the graceful close and the errors differ
\* only in the log line, Log level for the first and Error level for the rest.
C4_SameFailure ==
    [][\A s \in Present :
         (/\ ZeroByteRead(s)
          /\ LastError'[s] # SE_EWOULDBLOCK
          /\ <<pc[s], errno[s], LastError[s]>>' # <<pc[s], errno[s], LastError[s]>>)
         => /\ recvRet'[s] = "false"
            /\ pc'[s] = "shutdown"
            /\ Len(log'[s]) = Len(log[s]) + 2
            /\ log'[s][Len(log[s]) + 1][1] =
                 IF LastError'[s] = SE_NO_ERROR THEN "Log" ELSE "Error"]_vars

\* C4, witness: one session's receive ended on a graceful close and another's
\* on a socket error, and both returned false.
C4_Witness ==
    \E s1, s2 \in Present :
        /\ EndedByZeroRead(s1) /\ LastError[s1] = SE_NO_ERROR
        /\ EndedByZeroRead(s2) /\ LastError[s2] = SE_ECONNABORTED
        /\ recvRet[s1] = "false" /\ recvRet[s2] = "false"
        /\ log[s1][1][1] = "Log" /\ log[s2][1][1] = "Error"

\* The session has consumed the whole header of the frame it is reading (or
\* read last).
HeaderConsumed(s) == rd[s] - frameStart[s] >= HeaderSize

\* The magic and the declared length of that frame, as they are on the wire.
WireMagic(s) == ReadU32(wire[s], frameStart[s])
WireLength(s) == ReadU32(wire[s], frameStart[s] + 4)

\* ReceivePayload has failed, or is about to, right after the header.
RejectedAtHeader(s) ==
    /\ rd[s] = frameStart[s] + HeaderSize
    /\ \/ pc[s] = "header" /\ ExpectedSize[s] = 0
       \/ Torn(s) /\ exitCode[s] # "1"
    /\ pc[s] = "done" => (sockOps[s] = <<"Shutdown", "Close">> /\ ConnectionSocket[s] = NULL)

\* C5: when the header carries a magic other than DefaultMagic, ReceivePayload
\* fails having consumed the header and not one byte more, no later byte of
\* the stream is ever read, and the session goes through its teardown: once it
\* has left Run its socket is shut down and closed.
C5_BadMagic ==
    \A s \in Present :
        (HeaderConsumed(s) /\ WireMagic(s) # DefaultMagic) => RejectedAtHeader(s)

\* C5, witness: after one good frame, a frame with a foreign magic ended the
\* session; its payload is still unread on the closed socket.
C5_Witness ==
    \E s \in Present :
        /\ pc[s] = "done" /\ Len(Received[s]) = 1
        /\ HeaderConsumed(s) /\ WireMagic(s) = WrongMagic
        /\ Avail(s) > 0
        /\ sockOps[s] = <<"Shutdown", "Close">>

\* C6: a frame whose header declares the length 0 is rejected: ReceivePayload
\* fails right after the header and the session goes through its teardown; a
\* frame that is about to be broadcast has a payload that is not empty.
C6_ZeroLength ==
    \A s \in Present :
        /\ (HeaderConsumed(s) /\ WireMagic(s) = DefaultMagic /\ WireLength(s) = ToU32(0))
             => RejectedAtHeader(s)
        /\ pc[s] = "message" =>
             (sent[s] # <<>> /\ sent[s][1].kind = "frame" /\ sent[s][1].payload # <<>>)

\* C6, witness: a frame of length 0 ended the session, which broadcast nothing.
C6_Witness ==
    \E s \in Present :
        /\ pc[s] = "done" /\ Received[s] = <<>>
        /\ HeaderConsumed(s) /\ WireMagic(s) = DefaultMagic /\ WireLength(s) = ToU32(0)
        /\ sockOps[s] = <<"Shutdown", "Close">>

\* C7, as claimed: no header built by FMultiSocketMessageHeader for a payload
\* has PayloadSize 0 (an empty payload is rejected, not encoded).
C7_NeverZeroLength ==
    \A s \in Present : \A i \in 1..Len(sent[s]) :
        sent[s][i].kind = "frame" => sent[s][i].header.PayloadSize # ToU32(0)

\* C8: round trip. The frame the session is at being the header built for a
\* non-empty payload P followed by P: ReceivePayload never rejects it as
\* malformed, has succeeded once the frame's bytes are consumed, and on success
\* has consumed the frame and nothing else and leaves exactly P in the array.
C8_RoundTrip ==
    \A s \in Present :
        (/\ pc[s] \in {"header", "payload", "message"} \/ Torn(s)
         /\ sent[s] # <<>>
         /\ sent[s][1].kind = "frame" /\ sent[s][1].payload # <<>>
         /\ frameStart[s] = 0)
        => /\ pc[s] = "message" =>
                (ArrayReader[s] = sent[s][1].payload /\ rd[s] = sent[s][1].len)
           /\ ~(Torn(s) /\ recvRet[s] = "true")
           /\ rd[s] = sent[s][1].len => pc[s] \in {"payload", "message"}

\* C8, witness: the second frame of a connection was decoded into its payload,
\* a NUL and a letter, by a receive loop that saw would-block.
C8_Witness ==
    \E s \in Present :
        /\ pc[s] = "message" /\ Len(Received[s]) = 1
        /\ sent[s][1].kind = "frame" /\ sent[s][1].payload = <<0, 97>>
        /\ ArrayReader[s] = <<0, 97>>
        /\ LastError[s] = SE_EWOULDBLOCK

\* The state of a session.
SessionState(s) ==
    IF pc[s] = "init" THEN "Initializing" ELSE IF pc[s] = "done" THEN "Stopped" ELSE "Running"

\* C9: a session only moves Initializing -> Running -> Stopped. It enters
\* Running with the stop flag cleared; it leaves Running only at the end of the
\* teardown that follows a failed frame read, or at the top of the loop with the
\* stop flag set; and once Stopped it stays Stopped, consumes nothing more from
\* its socket and broadcasts nothing more.
C9_StateMachine ==
    [][\A s \in Present :
         /\ SessionState(s)' # SessionState(s) =>
              \/ /\ SessionState(s) = "Initializing" /\ SessionState(s)' = "Running"
                 /\ bStop'[s] = FALSE
                 /\ pc'[s] = "loop"
              \/ /\ SessionState(s) = "Running" /\ SessionState(s)' = "Stopped"
                 /\ \/ pc[s] = "stop" /\ recvRet[s] # "none" /\ exitCode'[s] = "0"
                    \/ pc[s] = "loop" /\ bStop[s] /\ exitCode'[s] = "1"
         /\ SessionState(s) = "Initializing" =>
              (rd'[s] = rd[s] /\ Received'[s] = Received[s])
         /\ SessionState(s) = "Stopped" =>
              /\ rd'[s] = rd[s]
              /\ Received'[s] = Received[s]
              /\ sockOps'[s] = sockOps[s]]_vars

\* C9, witness: a session that broadcast a frame was stopped by a stop request
\* while unread bytes were waiting on its socket.
C9_Witness ==
    \E s \in Present :
        /\ pc[s] = "done" /\ exitCode[s] = "1"
        /\ Len(Received[s]) = 1
        /\ Avail(s) > 0

\* C10: after a failed frame read the session shuts the socket down, then
\* closes it, then clears its handle, then sets the stop flag and returns: the
\* calls made on the socket are a prefix of <<Shutdown, Close>> at every
\* moment, the handle is cleared only after the Close, and Run returns 0 only
\* with the handle cleared and the stop flag set.
C10_TeardownOrder ==
    \A s \in Present :
        /\ sockOps[s] \in {<<>>, <<"Shutdown">>, <<"Shutdown", "Close">>}
        /\ pc[s] = "shutdown" => (sockOps[s] = <<>> /\ ConnectionSocket[s] # NULL)
        /\ pc[s] = "close" => (sockOps[s] = <<"Shutdown">> /\ ConnectionSocket[s] # NULL)
        /\ pc[s] = "clear" => (sockOps[s] = <<"Shutdown", "Close">> /\ ConnectionSocket[s] # NULL)
        /\ pc[s] = "stop" => (sockOps[s] = <<"Shutdown", "Close">> /\ ConnectionSocket[s] = NULL)
        /\ pc[s] \in {"shutdown", "close", "clear", "stop"} => exitCode[s] = "none"
        /\ ConnectionSocket[s] = NULL => sockOps[s] = <<"Shutdown", "Close">>
        /\ exitCode[s] = "0" =>
             /\ pc[s] = "done" /\ bStop[s]
             /\ ConnectionSocket[s] = NULL
             /\ sockOps[s] = <<"Shutdown", "Close">>

\* C10, witness: a session whose peer broke the connection in the middle of a
\* payload has gone through the whole teardown.
C10_Witness ==
    \E s \in Present :
        /\ pc[s] = "done" /\ exitCode[s] = "0"
        /\ EndedByZeroRead(s) /\ LastError[s] \in FatalErrors
        /\ Offset[s] = 1
        /\ sockOps[s] = <<"Shutdown", "Close">>

\* MultiSocketReceiveAll has reported a graceful close to the session.
GracefulCloseReported(s) ==
    \E i \in 1..Len(log[s]) : log[s][i] = <<"Log", "gracefully closed">>

\* The session's own variables, as the worker and the socket calls change them.
SessionVars(s) ==
    <<pc[s], bStop[s], ConnectionSocket[s], exitCode[s], HeaderBytes[s], ArrayReader[s],
      Offset[s], ExpectedSize[s], recvRet[s], log[s], Received[s], rd[s], sockOps[s]>>

\* C11: after MultiSocketReceiveAll has reported a graceful close the session
\* shuts its socket down and closes it exactly once: at every moment the calls
\* made on the socket are a prefix of <<Shutdown, Close>>, they are exactly
\* these two once Run has returned, and from the Close on no step (a further
\* Stop, the destructor) makes another call on the socket or reads from it.
C11_ClosedOnce ==
    /\ [](\A s \in Present : GracefulCloseReported(s) =>
            /\ sockOps[s] \in {<<>>, <<"Shutdown">>, <<"Shutdown", "Close">>}
            /\ pc[s] = "done" => sockOps[s] = <<"Shutdown", "Close">>
            /\ sockOps[s] = <<"Shutdown", "Close">> => pc[s] \in {"clear", "stop", "done"})
    /\ [][\A s \in Present :
            (GracefulCloseReported(s) /\ sockOps[s] = <<"Shutdown", "Close">>) =>
               /\ sockOps'[s] = sockOps[s]
               /\ rd'[s] = rd[s]
               /\ pc'[s] \in {"clear", "stop", "done"}]_vars

\* C11, witness: a session that broadcast one frame and then saw its peer
\* close the connection was stopped again and destroyed; its socket was shut
\* down and closed once.
C11_Witness ==
    \E s \in Present :
        /\ dtor[s] = "destroyed"
        /\ GracefulCloseReported(s)
        /\ Len(Received[s]) = 1
        /\ sockOps[s] = <<"Shutdown", "Close">>

\* C12: the stop flag is looked at only at the top of the loop of Run. Run
\* returns 1 only from the top of the loop with the flag set; with the flag set
\* in the middle of a frame read the session does not terminate, and a Recv
\* that reads nothing and leaves would-block keeps the worker where it is; and
\* a worker at the top of the loop with the flag set starts no frame read.
C12_StopAtLoopTop ==
    [][\A s \in Present :
         /\ (exitCode'[s] = "1" /\ exitCode[s] # "1") => (pc[s] = "loop" /\ bStop[s])
         /\ (bStop[s] /\ pc[s] \in {"header", "payload", "message"}) =>
              /\ exitCode'[s] = "none"
              /\ pc'[s] \in {"header", "payload", "message", "loop", "shutdown"}
              /\ pc'[s] = "loop" => Len(Received'[s]) = Len(Received[s]) + 1
              /\ pc'[s] = "shutdown" => pc[s] # "message"
         /\ (bStop[s] /\ ZeroByteRead(s) /\ LastError'[s] = SE_EWOULDBLOCK) =>
              (pc'[s] = pc[s] /\ exitCode'[s] = "none")
         /\ (bStop[s] /\ pc[s] = "loop") => pc'[s] \in {"loop", "done"}]_vars

\* C12, witness: a stop was requested while the worker is in the middle of a
\* payload, polling a socket that reports would-block.
C12_Witness ==
    \E s \in Present :
        /\ bStop[s] /\ pc[s] = "payload"
        /\ reqN[s] = 2 /\ Offset[s] = 1
        /\ LastError[s] = SE_EWOULDBLOCK
        /\ exitCode[s] = "none"

\* C13, as claimed: a session that has terminated and been destroyed has
\* released its socket, whatever ended it: the socket was shut down and closed.
C13_SocketReleased ==
    \A s \in Present :
        dtor[s] = "destroyed" => sockOps[s] = <<"Shutdown", "Close">>

NoNul(P) == \A i \in 1..Len(P) : P[i] # 0

\* C15: every frame received in full is broadcast before anything else
\* happens in the session: from the end of ReceivePayload the worker reads
\* nothing until it has appended one notification, which carries the endpoint
\* of the session's peer and the text of the oldest frame not yet notified
\* (the payload itself when it holds no NUL); earlier notifications are kept in
\* their order, a frame leaves the stream only by being notified, and a frame
\* read is entered only from the top of the loop.
C15_NotifyInOrder ==
    [][\A s \in Present :
         /\ (pc[s] = "message" /\ pc'[s] # "message") => pc'[s] = "loop"
         /\ (pc[s] = "message" /\ pc'[s] = "message") =>
              (rd'[s] = rd[s] /\ Received'[s] = Received[s])
         /\ (pc[s] = "message" /\ pc'[s] = "loop") =>
              /\ Len(Received'[s]) = Len(Received[s]) + 1
              /\ SubSeq(Received'[s], 1, Len(Received[s])) = Received[s]
              /\ Received'[s][Len(Received'[s])][1] = <<"peer", s>>
              /\ NoNul(sent[s][1].payload) =>
                   Received'[s][Len(Received'[s])][2] = sent[s][1].payload
              /\ sent'[s] = Tail(sent[s])
         /\ Received'[s] # Received[s] => (pc[s] = "message" /\ pc'[s] = "loop")
         /\ Len(sent'[s]) < Len(sent[s]) => (pc[s] = "message" /\ pc'[s] = "loop")
         /\ (pc'[s] = "header" /\ pc[s] # "header") => pc[s] = "loop"]_vars

\* C15, witness: two frames with different texts were notified in the order
\* they were sent.
C15_Witness ==
    \E s \in Present :
        Received[s] = << << <<"peer", s>>, <<97>> >>, << <<"peer", s>>, <<97, 97>> >> >>

\* C16: a failed frame read produces no notification: a worker in the failing
\* branch of Run stays in it until Run has returned, and no step into that
\* branch or within it or after it changes the notifications of the session,
\* whatever had been received of the failed frame.
C16_NoNotifyOnFailure ==
    [][\A s \in Present :
         /\ Torn(s) => Torn(s)'
         /\ Torn(s)' => Received'[s] = Received[s]
         /\ recvRet'[s] = "false" => Torn(s)']_vars

\* C16, witness: the peer closed the connection after the header and the
\* first byte of a two-byte payload; the byte is in the array, the session has
\* ended and has notified nothing.
C16_Witness ==
    \E s \in Present :
        /\ pc[s] = "done" /\ exitCode[s] = "0"
        /\ recvRet[s] = "false"
        /\ reqN[s] = 2 /\ Offset[s] = 1 /\ ArrayReader[s][1] = 97
        /\ peer[s] = "closed"
        /\ Received[s] = <<>>

\* C17: the failure of a session is its own: a step by which a session
\* enters or goes through the failing branch of Run, or returns, changes
\* nothing of any other session: not its socket handle, its stop flag, its
\* receive progress, its buffers, its notifications, the calls on its socket
\* or its last error code.
C17_FailureIsolated ==
    [][\A s, t \in Present :
         (s # t /\ Torn(s)' /\ SessionVars(s)' # SessionVars(s)) =>
            /\ SessionVars(t)' = SessionVars(t)
            /\ errno'[t] = errno[t]
            /\ LastError'[t] = LastError[t]
            /\ peer'[t] = peer[t]]_vars

\* C17, witness: one session has ended on a broken connection while the
\* other, its socket untouched, has received its frame and notified it.
C17_Witness ==
    \E s, t \in Present :
        /\ s # t
        /\ pc[s] = "done" /\ exitCode[s] = "0" /\ LastError[s] \in FatalErrors
        /\ Received[s] = <<>>
        /\ pc[t] = "loop" /\ Len(Received[t]) = 1
        /\ ConnectionSocket[t] = t /\ sockOps[t] = <<>> /\ ~bStop[t]

\* C18: with two sessions whose peers send one request each, a session has
\* notified exactly its own request, with the endpoint of its own peer, once
\* the request has been received, and nothing before: no notification carries
\* the other session's endpoint or text, and none is made twice.
C18_NoCrossDelivery ==
    \A s \in Present :
        Received[s] =
            IF quota[s] = 0 /\ sent[s] = <<>>
            THEN << << <<"peer", s>>, RequestOf(s)>> >>
            ELSE <<>>

\* C18, witness: both sessions have notified their request and are back at
\* the top of the loop.
C18_Witness ==
    /\ \A s \in Sessions : pc[s] = "loop" /\ Len(Received[s]) = 1
    /\ Received[1] # Received[2]

\* C19: a command that failed in the dispatch does not end the session: when
\* the listeners' dispatch of the frame just broadcast found no handler, or
\* its handler returned Error or InvalidArgument, the worker is back at the top
\* of the loop with its socket open and untouched and Run not returned, and
\* unless a stop was requested meanwhile its next step is to read a frame.
C19_DispatchFailureKeepsSession ==
    \A s \in Present :
        dispatched[s] \in {"NoHandler", "Error", "InvalidArgument"} =>
            /\ pc[s] = "loop"
            /\ SessionState(s) = "Running"
            /\ ConnectionSocket[s] # NULL
            /\ sockOps[s] = <<>>
            /\ exitCode[s] = "none"
            /\ Received[s] # <<>>
            /\ ~bStop[s] => ENABLED RunReceive(s)

\* C19, witness: the first command of a connection found no handler, and the
\* session is about to read the next frame, which the peer has sent already.
C19_Witness ==
    \E s \in Present :
        /\ dispatched[s] = "NoHandler"
        /\ Len(Received[s]) = 1
        /\ ~bStop[s]
        /\ Avail(s) > HeaderSize

\* C20: first-match precedence. Whenever two patterns of the registry both
\* match the command dispatched last, exactly one handler was called, and it
\* is the handler of a pattern that matches and has no matching pattern bound
\* before it; the handler of the pattern bound later was not called.
C20_FirstMatchWins ==
    \A i, j \in 1..Len(registry) :
        (i < j /\ command # <<>> /\ Matches(registry[i], command)
               /\ Matches(registry[j], command)) =>
            /\ Len(invoked) = 1
            /\ invoked[1].handler # registry[j].handler
            /\ \E m \in 1..i :
                  /\ Matches(registry[m], command)
                  /\ \A k \in 1..(m - 1) : ~Matches(registry[k], command)
                  /\ invoked[1].handler = registry[m].handler

\* C20, witness: vget /camera/0/fov was dispatched with the overlapping
\* pattern vget /camera/[str]/fov bound before vget /camera/[uint]/fov, and the
\* handler of the first was called with the argument 0.
C20_Witness ==
    /\ Len(registry) = 3
    /\ registry[2].handler = "OverlapA" /\ registry[3].handler = "GetFOV"
    /\ command = << <<"vget">>, <<"/camera/", "0", "/fov">> >>
    /\ invoked = << [handler |-> "OverlapA", args |-> <<"0">>] >>

\* C21: substitution matches. For every pattern of the registry and every
\* choice of valid values for its placeholders: when the command dispatched
\* is the text built from the pattern with these values, its segments joined
\* by single spaces, then the pattern matches the command, the arguments
\* extracted are exactly these values in their order, and a handler was
\* called with them.
C21_SubstitutionMatches ==
    command # <<>> =>
        \A p \in 1..Len(registry) :
            \A vals \in ValueTuples(Placeholders(registry[p].segs, 1), 1) :
                Tokenize(Join(Substitute(registry[p], vals), 1)) = command =>
                    /\ Matches(registry[p], command)
                    /\ Args(registry[p], command, 1) = vals
                    /\ Len(invoked) = 1
                    /\ invoked[1].args = vals

\* C21, witness: vset /camera/1/motion_blur 1.5 -90 1.5 00 was dispatched,
\* a pattern with a placeholder inside a path segment and four after it, and
\* SetMotionBlurParams was called with the five values.
C21_Witness ==
    /\ command = << <<"vset">>, <<"/camera/", "1", "/motion_blur">>,
                    <<"1.5">>, <<"-90">>, <<"1.5">>, <<"00">> >>
    /\ invoked = << [handler |-> "SetMotionBlurParams",
                     args |-> <<"1", "1.5", "-90", "1.5", "00">>] >>

\* C22: no match is an Error of its own. When the command dispatched matches
\* no pattern of the registry, the result is an Error that carries the
\* command text, no handler was called and nothing in the world was touched;
\* and an InvalidArgument result always comes from a handler that was called,
\* never from the failure to match.
C22_NoMatchIsError ==
    command # <<>> =>
        /\ (\A p \in 1..Len(registry) : ~Matches(registry[p], command)) =>
               /\ result.status = "Error"
               /\ result.text = Join(command, 1)
               /\ invoked = <<>>
               /\ effects = <<>>
        /\ result.status = "InvalidArgument" =>
               /\ Len(invoked) = 1
               /\ \E p \in 1..Len(registry) : Matches(registry[p], command)

\* C22, witness: vget /camera/abc/fov was dispatched with vget /camera/[uint]/fov
\* registered; its id is no uint, nothing matched, and the Error names the text.
C22_Witness ==
    /\ \E p \in 1..Len(registry) :
           registry[p].segs = << <<"vget">>, <<"/camera/", "[uint]", "/fov">> >>
    /\ command = << <<"vget">>, <<"/camera/", "abc", "/fov">> >>
    /\ result = [status |-> "Error", why |-> "nomatch",
                 text |-> <<"vget", " ", "/camera/", "abc", "/fov">>]
    /\ invoked = <<>>

\* The handler called takes a sensor id: its pattern is one of /camera/[uint]/...
TakesSensorId ==
    /\ Len(invoked) = 1
    /\ Len(command) >= 2
    /\ Len(command[2]) = 3
    /\ command[2][1] = "/camera/"

\* The id handed to the handler refers to no sensor of the sensor list.
NoSuchSensor ==
    /\ TakesSensorId
    /\ GetSensorById(Atoi(invoked[1].args[1]), world) = NullObject

\* C23: the handlers validate the sensor id. When a handler of a
\* /camera/[uint]/... pattern was called with an id outside the sensor list,
\* its result is Error or InvalidArgument and it made no call on a sensor,
\* nor one through the null pointer it got for the sensor.
C23_InvalidIdRejected ==
    NoSuchSensor =>
        /\ result.status \in {"Error", "InvalidArgument"}
        /\ \A k \in 1..Len(effects) : effects[k].on \notin {"Sensor", "Null"}

\* C24: the receive loop ends after a graceful close. Whenever the worker is
\* in the loop of MultiSocketReceiveAll, the peer has closed and every byte
\* it sent has been read (so each Recv returns zero bytes without an error),
\* the worker leaves the loop in the end, whatever the last error code holds.
C24_ReturnsAfterClose ==
    \A s \in Sessions :
        (InReceiveAll(s) /\ peer[s] = "closed" /\ Avail(s) = 0) ~> ~InReceiveAll(s)

\* C25: the declared length is the number of bytes read. Whenever
\* ReceivePayload has returned true for a frame, the bytes its second call of
\* MultiSocketReceiveAll read are as many as the uint32 length of the header
\* says, for every length a header can carry.
C25_ExactlyDeclared ==
    \A s \in Sessions :
        pc[s] = "message" => ToU32(rd[s] - callStart[s]) = PayloadSize[s]

\* The handler called is one that acts on the player: MoveTo, or
\* SetCameraLocation or SetCameraRotation with the id of the player's camera.
ActsOnPawn ==
    /\ Len(invoked) = 1
    /\ \/ invoked[1].handler = "MoveTo"
       \/ /\ invoked[1].handler \in {"SetCameraLocation", "SetCameraRotation"}
          /\ IsPlayerCamera(invoked[1].args[1])

\* C26: a missing pawn is reported. When a handler that acts on the player
\* was called while the pawn is invalid (for SetCameraRotation: the pawn or
\* its controller), its result is InvalidArgument or Error, and it made no
\* call on the invalid pawn or controller, nor through a null pointer.
C26_MissingPawnRejected ==
    (/\ ActsOnPawn
     /\ \/ ~world.pawn
        \/ invoked[1].handler = "SetCameraRotation" /\ ~world.controller) =>
        /\ result.status \in {"Error", "InvalidArgument"}
        /\ \A k \in 1..Len(effects) :
               /\ effects[k].on # "Null"
               /\ ~world.pawn => effects[k].on # "Pawn"
               /\ ~world.controller => effects[k].on # "Controller"

\* C27: the player is chosen by the number. When SetCameraLocation or
\* SetCameraRotation was called and returned OK, the change went to the player
\* (the pawn for the location, its controller for the rotation) if the id
\* token denotes sensor 0 as GetCamera reads it, whatever its spelling, and to
\* the sensor of that index for every other id.
C27_PlayerForSensorZero ==
    (/\ Len(invoked) = 1
     /\ invoked[1].handler \in {"SetCameraLocation", "SetCameraRotation"}
     /\ result.status = "OK") =>
        LET cam == GetCamera(invoked[1].args, world)
            target == IF invoked[1].handler = "SetCameraLocation" THEN "Pawn" ELSE "Controller"
            writes == { k \in 1..Len(effects) : effects[k].write }
        IN /\ writes # {}
           /\ \A k \in writes :
                  IF cam = 0 THEN effects[k].on = target
                  ELSE effects[k].on = "Sensor" /\ effects[k].idx = cam

\* The handler called is a vset handler whose body the source holds: every
\* vset pattern but vset /viewmode, which is answered outside FCameraHandler.
VsetHandlerCalled ==
    /\ Len(invoked) = 1
    /\ command[1] = <<"vset">>
    /\ invoked[1].handler # "SetPlayerViewMode"

\* The argument lists a handler is called with directly in the model, of any
\* length up to MaxArgs.
MaxArgs == 5

ArgLists == SeqsUpTo({"0", "1", "none"}, MaxArgs)

\* The vset handlers of the registry whose body the source holds.
VsetHandlers ==
    { registry[p].handler : p \in { q \in 1..Len(registry) :
                                       /\ registry[q].segs[1] = <<"vset">>
                                       /\ registry[q].handler # "SetPlayerViewMode" } }

\* C28: a failed vset changes nothing. When a vset handler was called and its
\* result is Error or InvalidArgument, none of the calls it made on a sensor,
\* the pawn, the controller or the world is one that modifies it; and the
\* same holds for every vset handler called in this world with any argument
\* list, of the right length or not.
C28_FailureModifiesNothing ==
    /\ (VsetHandlerCalled /\ result.status \in {"Error", "InvalidArgument"}) =>
           \A k \in 1..Len(effects) : ~effects[k].write
    /\ command = <<>> =>
           \A h \in VsetHandlers : \A args \in ArgLists :
               \A o \in RunHandler(h, args, world) :
                   o.status \in {"Error", "InvalidArgument"} =>
                       \A k \in 1..Len(o.effects) : ~o.effects[k].write

\* C28, witness: vset /camera/0/rotation for the player with a valid pawn
\* that has no controller: the handler got as far as asking the pawn for its
\* controller, returned InvalidArgument, and nothing was set.
C28_Witness ==
    /\ Len(invoked) = 1
    /\ invoked[1].handler = "SetCameraRotation"
    /\ world.pawn /\ ~world.controller
    /\ result = [status |-> "InvalidArgument", why |-> "controller", text |-> <<>>]
    /\ effects = << [on |-> "Pawn", idx |-> NullObject, op |-> "GetController",
                     write |-> FALSE] >>

\* C29: the patterns supply what the handlers ask for. When a command matched
\* a registered pattern and its handler was called, the arguments handed over
\* are as many as the pattern has placeholders, and the result is not one of
\* the handler's answers to a wrong argument count (InvalidArgument, or the
\* Error of SaveData for a missing file name), nor did the handler read an
\* argument beyond the last.
C29_CountsAgree ==
    Len(invoked) = 1 =>
        /\ \E p \in 1..Len(registry) :
               /\ Matches(registry[p], command)
               /\ registry[p].handler = invoked[1].handler
               /\ Len(invoked[1].args) = Len(Placeholders(registry[p].segs, 1))
        /\ result.why \notin {"count", "index"}

\* C29, witness: the pattern with the most placeholders, five, on a sensor
\* that exists: SetMotionBlurParams found its five arguments and set them.
C29_Witness ==
    /\ Len(invoked) = 1
    /\ invoked[1].handler = "SetMotionBlurParams"
    /\ Len(invoked[1].args) = 5
    /\ result.status = "OK"
    /\ effects = << [on |-> "Sensor", idx |-> Atoi(invoked[1].args[1]),
                     op |-> "SetMotionBlurParams", write |-> TRUE] >>

\* Two parts of two patterns can stand for the same text.
PartsOverlap(a, b) ==
    IF IsPlaceholder(a) /\ IsPlaceholder(b) THEN TRUE
    ELSE IF IsPlaceholder(a) THEN MatchPart(a, b)
    ELSE IF IsPlaceholder(b) THEN MatchPart(b, a)
    ELSE a = b

\* Two patterns can match the same command: as many segments, of as many
\* parts, and the parts overlap place by place.
PatternsOverlap(p, q) ==
    /\ Len(p.segs) = Len(q.segs)
    /\ \A i \in 1..Len(p.segs) :
           /\ Len(p.segs[i]) = Len(q.segs[i])
           /\ \A j \in 1..Len(p.segs[i]) : PartsOverlap(p.segs[i][j], q.segs[i][j])

\* The handler the dispatch would call with the patterns tried in the reverse
\* order, or "none".
HandlerInReverse ==
    LET matching == { p \in 1..Len(registry) : Matches(registry[p], command) }
    IN IF matching = {} THEN "none"
       ELSE registry[CHOOSE p \in matching : \A q \in matching : q <= p].handler

\* C30: the registered patterns are disjoint. No two patterns of the registry
\* can match the same command; at most one of them matches the command
\* dispatched, and the handler called is the one that would be called with
\* the patterns tried in the reverse order.
C30_PatternsDisjoint ==
    /\ command = <<>> =>
           \A p, q \in 1..Len(registry) :
               p # q => ~PatternsOverlap(registry[p], registry[q])
    /\ command # <<>> =>
           /\ Cardinality({ p \in 1..Len(registry) : Matches(registry[p], command) }) <= 1
           /\ Len(invoked) = 1 => invoked[1].handler = HandlerInReverse

\* C30, witness: vget /camera/0/seg png was dispatched, which differs from a
\* command of the object_mask pattern in one literal only; the seg pattern
\* alone matched and GetCameraObjMask was called.
C30_Witness ==
    /\ command = << <<"vget">>, <<"/camera/", "0", "/seg">>, <<"png">> >>
    /\ Cardinality({ p \in 1..Len(registry) : Matches(registry[p], command) }) = 1
    /\ Len(invoked) = 1
    /\ invoked[1].handler = "GetCameraObjMask"

\* C31: the text is the payload in full. Whenever a session notifies its
\* listeners of a frame, the text it hands them is the payload of that frame
\* as the peer sent it, byte for character, with as many characters as the
\* payload has bytes, a zero byte among them or not.
C31_FullPayload ==
    [][\A s \in Present :
         (pc[s] = "message" /\ pc'[s] = "loop" /\ sent[s][1].kind = "frame") =>
             LET text == Received'[s][Len(Received'[s])][2]
             IN /\ Len(text) = Len(sent[s][1].payload)
                /\ text = sent[s][1].payload]_vars

\* The extension of a file name, in lower case: the letters after its last
\* dot, when no path separator follows that dot; none otherwise.
ExtensionOf(name) ==
    LET dots == {i \in 1..Len(name) : name[i] = "."}
        free == {i \in dots : \A j \in (i + 1)..Len(name) :
                                 name[j] \notin {".", "/", "\\"}}
    IN IF free = {} THEN << >>
       ELSE LET d == CHOOSE i \in free : TRUE
            IN [k \in 1..(Len(name) - d) |-> ToLowerChar(name[d + k])]

\* C32: ParseFilenameType classifies its argument. The result is PngBinary,
\* BmpBinary or NpyBinary exactly when the argument has no dot and is png, bmp
\* or npy; it is Png, Bmp, Npy or Exr exactly when the argument has a dot and
\* its extension is png, bmp, npy or exr; it is Invalid in every other case.
\* Letter case does not matter in either form.
C32_Classification ==
    filenameType # "none" =>
        LET bare == [k \in 1..Len(filename) |-> ToLowerChar(filename[k])]
            ext == ExtensionOf(filename)
            dot == \E i \in 1..Len(filename) : filename[i] = "."
        IN /\ filenameType = "PngBinary" <=> (~dot /\ bare = TextPng)
           /\ filenameType = "BmpBinary" <=> (~dot /\ bare = TextBmp)
           /\ filenameType = "NpyBinary" <=> (~dot /\ bare = TextNpy)
           /\ filenameType = "Png" <=> (dot /\ ext = TextPng)
           /\ filenameType = "Bmp" <=> (dot /\ ext = TextBmp)
           /\ filenameType = "Npy" <=> (dot /\ ext = TextNpy)
           /\ filenameType = "Exr" <=> (dot /\ ext = TextExr)
           /\ filenameType \in {"PngBinary", "BmpBinary", "NpyBinary",
                                "Png", "Bmp", "Npy", "Exr", "Invalid"}

\* The bare extension in upper case was classified as the binary form.
C32_Witness ==
    /\ filename = << "P", "N", "G" >>
    /\ filenameType = "PngBinary"

\* The sensors of the game world: the objects whose owner lives in it.
GameSensors ==
    IF scene.world
    THEN {o \in DOMAIN scene.kind : scene.kind[o] \in {"pawn", "game"}}
    ELSE {}

\* The sensors that are components of the valid player pawn.
PawnSensors ==
    IF scene.world /\ scene.pawn
    THEN {o \in DOMAIN scene.kind : scene.kind[o] = "pawn"}
    ELSE {}

\* C33: the sensor list and the lookup by id. The list GetSensorById builds
\* holds every sensor of the game world exactly once and nothing else, the
\* sensors of the player pawn stand before all others, the lookup returns the
\* element at index id when 0 <= id < length and no sensor otherwise, and so
\* id 0 yields a sensor of the pawn whenever the pawn has one.
C33_SensorList ==
    [][sensorId' # sensorId =>
        LET list == sensorList'
        IN /\ \A o \in GameSensors :
                 Cardinality({i \in 1..Len(list) : list[i] = o}) = 1
           /\ \A i \in 1..Len(list) : list[i] \in GameSensors
           /\ \A i, j \in 1..Len(list) :
                 (i < j /\ list[j] \in PawnSensors) => list[i] \in PawnSensors
           /\ sensor' = IF 0 <= sensorId' /\ sensorId' < Len(list)
                        THEN list[sensorId' + 1]
                        ELSE NullObject
           /\ (sensorId' = 0 /\ PawnSensors # {}) => sensor' \in PawnSensors]_vars

\* Id 0 was looked up in a world where the object hash hands out another
\* sensor of the game before the one of the pawn, and an editor object too.
C33_Witness ==
    /\ sensorId = 0
    /\ scene.world /\ scene.pawn
    /\ Len(scene.objects) = 3
    /\ scene.kind[scene.objects[1]] = "game"
    /\ scene.kind[scene.objects[2]] = "pawn"
    /\ scene.kind[scene.objects[3]] = "editor"
    /\ Len(sensorList) = 2
    /\ sensor = scene.objects[2]

====
